---- MODULE Spec2Model ----
(***************************************************************************)
(* Interview-Assist: the client-side detection engine (gaze / presence     *)
(* tracker and object debounce), the callbacks of VideoProctoring that     *)
(* turn its results into events and persist them (addEvent), the           *)
(* StorageManager event sink, the MediaRecorderManager chunk store, and    *)
(* the backend's users and sessions routes over its three collections.     *)
(*                                                                         *)
(* Times are Date.now() values in milliseconds.  Durations, which the code *)
(* reports in seconds ((now - start) / 1000), are kept in milliseconds and *)
(* compared with the thresholds scaled by 1000, so that all arithmetic     *)
(* stays in the integers.  Confidences are in hundredths (0.45 is 45).     *)
(***************************************************************************)
EXTENDS Integers, Sequences, FiniteSets, TLC

\* ---------------------------------------------------------------- bounds
\* Last clock value explored by the face tracker.
MaxNow == 16000
\* faceMesh.send() calls that may be in flight at once.
MaxFaceInflight == 1
\* Faces the provider reports in one frame (maxNumFaces allows up to 3).
MaxFaces == 2
\* Last clock value explored by the object tracker.
MaxObjNow == 8000
\* objectModel.detect() calls that may be in flight at once.
MaxObjInflight == 2
\* Predictions the object provider returns for one frame.
MaxDets == 2
\* Last clock value explored when both polling loops run together.
MaxEngineNow == 4000
\* StorageManager calls made in one run, numbered in invocation order.
MaxCalls == 3
\* Local sessions startSession may create in one run.
MaxSessions == 1
\* Backend requests made in one run, numbered in arrival order.
MaxRequests == 2
\* Items in the array body of one POST /api/sessions/:id/logs.
MaxItems == 2
\* Last clock value explored by the backend.
MaxBackendNow == 2000
\* Last clock value explored while addEvent's persistence blocks run.
MaxPageNow == 2000
\* addEvent calls made in one run, numbered in call order.
MaxAddEvents == 2
\* ondataavailable events of one recording, numbered in delivery order.
MaxChunks == 3
\* Last clock value explored while the recorder runs.
MaxRecNow == 3000

\* ------------------------------------------------------ program constants
\* JavaScript null for a timestamp: falsy, exactly like the number 0.
NULL == 0
\* Date.now() when the engine is constructed (any positive value).
StartNow == 1000
\* runObjectDetection's timer period, the step of the clock.
ObjectIntervalMs == 1000
\* gazeHistory capacity and the 70% rule.
GazeWindow == 10
GazeMinAway == 7
\* detectionSettings, in seconds.
LookAwayThreshold == 5
NoFaceThreshold == 10
\* pred.score > 0.45 in runObjectDetection, in hundredths.
MinScore == 45
\* obj.confidence > 0.45 in onObjectDetection, in hundredths.
MinConfidence == 45
\* Re-alert suppression and presence memory of the object debounce map.
DebounceMs == 3000
EvictMs == 5000
\* GET /api/sessions/:id/logs: limit when the query has none, and its cap.
LogsDefaultLimit == 100
LogsMaxLimit == 1000

VARIABLES
    now,                \* Date.now()
    detectionActive,    \* DetectionEngine.detectionActive
    faceDetectionInterval,   \* face timer handle present?
    objectDetectionInterval, \* object timer handle present?
    faceMesh,           \* DetectionEngine.faceMesh is non-null
    objectModel,        \* DetectionEngine.objectModel is non-null
    modelStatus,        \* VideoProctoring modelStatus, set by onModelLoad
    gazeState,          \* DetectionEngine.gazeState
    faceInflight,       \* faceMesh.send() calls whose result is pending
    noFaceRunEvents,    \* 'No face' events in the current run of no-face results
    lookAwayEpisodeEvents, \* 'Looking away' events in the current episode
    detectedObjects,    \* detectedObjectsRef: class -> last logged time
    objInflight,        \* objectModel.detect() calls pending, by poll time
    lastEmitPoll,       \* poll whose result produced the latest object event
    lastEventTime,      \* class -> time of its latest object_detected event
    lastSeen,           \* class -> time of the latest frame handed to
                        \* onObjectDetection that held the class (kept by
                        \* SpecObjectSeq only)
    faceResult,         \* the result handed to onFaceDetection by the last step
    objResult,          \* currentObjects of the onObjectDetection call of the last step
    emitted,            \* events addEvent created in the last step, in order
    backendBaseUrl,     \* StorageManager.backendBaseUrl configured?
    store,              \* localforage: local session id -> SessionData
    calls,              \* StorageManager calls: position and local variables
    remoteSessions,     \* POST /api/sessions that succeeded: the local session
                        \* each was issued for, in order (its index is its _id)
    everConfigured,     \* setBackendBaseUrl was called with a URL at some time
    localSessionId,     \* VideoProctoring's localSessionId state (NULL: null)
    users,              \* backend collection of User documents, by _id
    sessions,           \* backend collection of Session documents, by _id
    logs,               \* backend collection of Log documents, in insertion order
    requests,           \* backend requests: position, locals and response
    mediaRecorder,      \* MediaRecorderManager.mediaRecorder: "null", or the
                        \* recorder's state
    recordedChunks,     \* MediaRecorderManager.recordedChunks
    recordingItem,      \* localforage item stored under storageKey
    chunkCalls,         \* ondataavailable handlers: position and locals
    blob                \* what getRecordingBlob returned in the last step

engineVars == <<detectionActive, faceDetectionInterval, objectDetectionInterval>>
loadVars == <<faceMesh, objectModel, modelStatus>>
faceState == <<gazeState, faceInflight, noFaceRunEvents, lookAwayEpisodeEvents>>
objState == <<detectedObjects, objInflight, lastEmitPoll, lastEventTime,
              lastSeen>>
outVars == <<faceResult, objResult, emitted>>
engineState == <<now, engineVars, loadVars, faceState, objState, outVars>>
clientStore == <<backendBaseUrl, store, calls, remoteSessions, everConfigured,
                 localSessionId>>
dbVars == <<users, sessions, logs>>
recorderVars == <<mediaRecorder, recordedChunks, recordingItem, chunkCalls,
                  blob>>
storeVars == <<clientStore, dbVars, requests, recorderVars>>
vars == <<engineState, storeVars>>

\* ------------------------------------------------------------- helpers
Truthy(t) == t # NULL

CountTrue(h) == Cardinality({i \in 1..Len(h) : h[i]})

NoResult == [kind |-> "none"]

\* A tick whose inference threw: the catch logged it with console.error.
ErrorResult == [kind |-> "error"]

\* COCO-SSD labels the frames of the model may carry.
Classes == {"cell phone", "book", "person"}

\* ------------------------------------------------- gaze / presence tracker
GazeInit ==
    [noFaceStart |-> NULL, lookAwayStart |-> NULL, hasFace |-> FALSE,
     gazeHistory |-> <<>>, lookAwayViolationLogged |-> FALSE,
     noFaceViolationLogged |-> FALSE]

\* Variant: a full window drops the sample just pushed instead of the oldest.
PushSampleDropsNewest(h, cur) ==
    LET h1 == Append(h, cur)
    IN  IF Len(h1) > GazeWindow THEN SubSeq(h1, 1, GazeWindow) ELSE h1

\* gazeHistory.push(cur); if (length > 10) shift()
PushSample(h, cur) ==
    LET h1 == Append(h, cur)
    IN  IF Len(h1) > GazeWindow THEN Tail(h1) ELSE h1

\* Variant: the window rule off by one (6 of 10 suffice).
SmoothedSixSuffice(h) == CountTrue(h) >= GazeMinAway - 1

\* lookingAwayCount >= 7
Smoothed(h) == CountTrue(h) >= GazeMinAway

\* Variant: a returning face clears noFaceStart but not its one-shot flag.
HasFaceBranchKeepsNoFaceFlag(gs, t, cur) ==
    LET g1 == [gs EXCEPT !.hasFace = TRUE, !.noFaceStart = NULL]
        g3 == [g1 EXCEPT !.gazeHistory = PushSample(g1.gazeHistory, cur)]
    IN  IF Smoothed(g3.gazeHistory)
        THEN IF ~Truthy(g3.lookAwayStart)
             THEN [g3 EXCEPT !.lookAwayStart = t,
                             !.lookAwayViolationLogged = FALSE]
             ELSE g3
        ELSE IF Truthy(g3.lookAwayStart)
             THEN [g3 EXCEPT !.lookAwayStart = NULL,
                             !.lookAwayViolationLogged = FALSE]
             ELSE g3

\* The hasFace branch of onFaceMeshResults: the state after it.
HasFaceBranch(gs, t, cur) ==
    LET g1 == [gs EXCEPT !.hasFace = TRUE]
        g2 == IF Truthy(g1.noFaceStart)
              THEN [g1 EXCEPT !.noFaceStart = NULL,
                              !.noFaceViolationLogged = FALSE]
              ELSE g1
        g3 == [g2 EXCEPT !.gazeHistory = PushSample(g2.gazeHistory, cur)]
    IN  IF Smoothed(g3.gazeHistory)
        THEN IF ~Truthy(g3.lookAwayStart)
             THEN [g3 EXCEPT !.lookAwayStart = t,
                             !.lookAwayViolationLogged = FALSE]
             ELSE g3
        ELSE IF Truthy(g3.lookAwayStart)
             THEN [g3 EXCEPT !.lookAwayStart = NULL,
                             !.lookAwayViolationLogged = FALSE]
             ELSE g3

\* Variant: the no-face branch clears its one-shot flag on every result.
NoFaceBranchAlwaysResets(gs, t) ==
    [gs EXCEPT !.hasFace = FALSE,
               !.noFaceStart = IF Truthy(gs.noFaceStart) THEN gs.noFaceStart ELSE t,
               !.noFaceViolationLogged = FALSE,
               !.lookAwayStart = NULL,
               !.lookAwayViolationLogged = FALSE]

\* Variant: the no-face branch closes the look-away episode but leaves its
\* one-shot flag as it was.
NoFaceBranchKeepsLookAwayFlag(gs, t) ==
    LET g1 == [gs EXCEPT !.hasFace = FALSE]
        g2 == IF ~Truthy(g1.noFaceStart)
              THEN [g1 EXCEPT !.noFaceStart = t,
                              !.noFaceViolationLogged = FALSE]
              ELSE g1
    IN  [g2 EXCEPT !.lookAwayStart = NULL]

\* Variant: the no-face branch also empties the gaze window.
NoFaceBranchClearsHistory(gs, t) ==
    LET g1 == [gs EXCEPT !.hasFace = FALSE, !.gazeHistory = <<>>]
        g2 == IF ~Truthy(g1.noFaceStart)
              THEN [g1 EXCEPT !.noFaceStart = t,
                              !.noFaceViolationLogged = FALSE]
              ELSE g1
    IN  IF Truthy(g2.lookAwayStart)
        THEN [g2 EXCEPT !.lookAwayStart = NULL,
                        !.lookAwayViolationLogged = FALSE]
        ELSE g2

\* The else (no face) branch of onFaceMeshResults: the state after it.
NoFaceBranch(gs, t) ==
    LET g1 == [gs EXCEPT !.hasFace = FALSE]
        g2 == IF ~Truthy(g1.noFaceStart)
              THEN [g1 EXCEPT !.noFaceStart = t,
                              !.noFaceViolationLogged = FALSE]
              ELSE g1
    IN  IF Truthy(g2.lookAwayStart)
        THEN [g2 EXCEPT !.lookAwayStart = NULL,
                        !.lookAwayViolationLogged = FALSE]
        ELSE g2

\* The state onFaceMeshResults leaves for a result with faceCount faces.
TrackerUpdate(gs, t, faceCount, cur) ==
    IF faceCount > 0 THEN HasFaceBranch(gs, t, cur) ELSE NoFaceBranch(gs, t)

\* Variant: lookingAway is read off gazeHistory also when no face is present.
MakeFaceResultGazeWithoutFace(g, t, faceCount) ==
    LET hasFace == faceCount > 0
        lookingAway == Smoothed(g.gazeHistory)
    IN  [kind |-> "face",
         multipleFaces |-> faceCount > 1,
         noFace |-> ~hasFace,
         lookingAway |-> lookingAway,
         noFaceDuration |-> IF hasFace THEN 0 ELSE t - g.noFaceStart,
         lookAwayDuration |-> IF lookingAway THEN t - g.lookAwayStart ELSE 0,
         faceCount |-> faceCount]

\* The FaceDetectionResult built from the updated state (durations in ms).
MakeFaceResult(g, t, faceCount) ==
    LET hasFace == faceCount > 0
        lookingAway == hasFace /\ Smoothed(g.gazeHistory)
    IN  [kind |-> "face",
         multipleFaces |-> faceCount > 1,
         noFace |-> ~hasFace,
         lookingAway |-> lookingAway,
         noFaceDuration |-> IF hasFace THEN 0 ELSE t - g.noFaceStart,
         lookAwayDuration |-> IF lookingAway THEN t - g.lookAwayStart ELSE 0,
         faceCount |-> faceCount]

\* ------------------------------------------ VideoProctoring.onFaceDetection
\* addEvent: id: Date.now().toString(), the decimal numeral of the time.
EventId == ToString(now)

Event(type, details, severity) ==
    [id |-> EventId, type |-> type, details |-> details,
     severity |-> severity]

\* Variant: two faces do not count as multiple.
MultipleFacesEventsAboveTwo(res) ==
    IF res.faceCount > 2
    THEN <<Event("violation", "Multiple faces detected", "high")>>
    ELSE <<>>

\* if (results.multipleFaces) addEvent(...)
MultipleFacesEvents(res) ==
    IF res.multipleFaces
    THEN <<Event("violation", "Multiple faces detected", "high")>>
    ELSE <<>>

\* Variant: the no-face violation fires at the threshold itself.
NoFaceFiresAtThreshold(g, res) ==
    /\ res.noFace
    /\ res.noFaceDuration >= NoFaceThreshold * 1000
    /\ ~g.noFaceViolationLogged

\* results.noFace && noFaceDuration > noFaceThreshold && !noFaceViolationLogged
NoFaceFires(g, res) ==
    /\ res.noFace
    /\ res.noFaceDuration > NoFaceThreshold * 1000
    /\ ~g.noFaceViolationLogged

\* results.lookingAway && lookAwayDuration > lookAwayThreshold && !logged
LookAwayFires(g, res) ==
    /\ res.lookingAway
    /\ res.lookAwayDuration > LookAwayThreshold * 1000
    /\ ~g.lookAwayViolationLogged

\* The flag value the callback leaves after emitting.
FlagAfterEmit == TRUE

\* Variant: the callback emits without latching the look-away flag.
CallbackGazeNoLookAwayLatch(g, res) ==
    IF NoFaceFires(g, res)
    THEN [g EXCEPT !.noFaceViolationLogged = FlagAfterEmit]
    ELSE g

\* gazeState after the callback.
CallbackGaze(g, res) ==
    LET g1 == IF NoFaceFires(g, res)
              THEN [g EXCEPT !.noFaceViolationLogged = FlagAfterEmit]
              ELSE g
    IN  IF LookAwayFires(g1, res)
        THEN [g1 EXCEPT !.lookAwayViolationLogged = FlagAfterEmit]
        ELSE g1

\* Events the callback creates, in order.
CallbackEvents(g, res) ==
    MultipleFacesEvents(res)
    \o (IF NoFaceFires(g, res)
        THEN <<Event("violation", "No face detected", "high")>> ELSE <<>>)
    \o (IF LookAwayFires(g, res)
        THEN <<Event("violation", "Looking away", "medium")>> ELSE <<>>)

\* ------------------------------------------------------ object detection
\* isProhibitedObject: the label contains, or is contained in, one of these.
\* For the whole labels in Classes that is membership.
ProhibitedItems ==
    {"cell phone", "laptop", "book", "keyboard", "mouse", "tablet", "remote"}

IsProhibitedObject(c) == c \in ProhibitedItems

\* Scores a prediction may carry: the threshold itself and one above it.
Scores == {MinScore, 90}

Predictions == [class : Classes, score : Scores]

Frames == UNION {[1..n -> Predictions] : n \in 0..MaxDets}

\* predictions.filter(isProhibitedObject(class) && score > 0.45)
KeepPrediction(p) == IsProhibitedObject(p.class) /\ p.score > MinScore

FilterPredictions(frame) == SelectSeq(frame, KeepPrediction)

\* Frames that differ only in predictions the filter drops are handled alike:
\* one frame for each list of predictions that survives the filter.
DistinctFrames == {FilterPredictions(f) : f \in Frames}

\* Variant: the debounce admits a repeat at exactly 3000 ms.
ShouldLogAtDebounce(last, t) == ~Truthy(last) \/ t - last >= DebounceMs

\* !lastDetected || (now - lastDetected) > 3000
ShouldLog(last, t) == ~Truthy(last) \/ t - last > DebounceMs

\* Variant: every prohibited object is reported with severity high.
SeverityAlwaysHigh(c) == "high"

\* obj.class === 'cell phone' ? 'high' : 'medium'
Severity(c) == IF c = "cell phone" THEN "high" ELSE "medium"

ObjectEvent(o) ==
    [id |-> EventId, type |-> "object_detected", details |-> o.class,
     severity |-> Severity(o.class), confidence |-> o.score]

\* Variant: the debounce test reads the map as it was when the callback began.
RECURSIVE LogObjectsAgainstOldMap(_, _, _)
LogObjectsAgainstOldMap(objs, st, t) ==
    IF objs = <<>> THEN st
    ELSE LET o == Head(objs)
             st1 == IF o.score > MinConfidence
                    THEN IF ShouldLog(detectedObjects[o.class], t)
                         THEN [map |-> [st.map EXCEPT ![o.class] = t],
                               events |-> Append(st.events, ObjectEvent(o)),
                               current |-> st.current \cup {o.class}]
                         ELSE [st EXCEPT !.current = @ \cup {o.class}]
                    ELSE st
         IN  LogObjectsAgainstOldMap(Tail(objs), st1, t)

\* objects.forEach of onObjectDetection: st is <<map, events, currentObjects>>.
RECURSIVE LogObjects(_, _, _)
LogObjects(objs, st, t) ==
    IF objs = <<>> THEN st
    ELSE LET o == Head(objs)
             st1 == IF o.score > MinConfidence
                    THEN IF ShouldLog(st.map[o.class], t)
                         THEN [map |-> [st.map EXCEPT ![o.class] = t],
                               events |-> Append(st.events, ObjectEvent(o)),
                               current |-> st.current \cup {o.class}]
                         ELSE [st EXCEPT !.current = @ \cup {o.class}]
                    ELSE st
         IN  LogObjects(Tail(objs), st1, t)

\* Variant: the sweep forgets the presence test and evicts at the debounce age.
SweepIgnoringPresence(map, current, t) ==
    [c \in Classes |->
        IF Truthy(map[c]) /\ t - map[c] >= DebounceMs THEN NULL ELSE map[c]]

\* detectedObjectsRef.current.forEach: delete entries absent and over 5 s old.
Sweep(map, current, t) ==
    [c \in Classes |->
        IF Truthy(map[c]) /\ c \notin current /\ t - map[c] > EvictMs
        THEN NULL ELSE map[c]]

\* onObjectDetection(objects) at time t: <<map, events, currentObjects>> after.
OnObjectDetection(map, objs, t) ==
    LET st == LogObjects(objs, [map |-> map, events |-> <<>>, current |-> {}], t)
    IN  [st EXCEPT !.map = Sweep(st.map, st.current, t)]

RemoveAt(q, i) == SubSeq(q, 1, i - 1) \o SubSeq(q, i + 1, Len(q))

EventClasses(evs) == {evs[i].details : i \in 1..Len(evs)}

\* --------------------------------------------------------- StorageManager
CallIds == 1..MaxCalls
SessionIds == 1..MaxSessions

\* lf.getItem of a key that was never set.
NoSession ==
    [exists |-> FALSE, events |-> <<>>, remoteSessionId |-> NULL,
     ended |-> FALSE]

\* The SessionData startSession builds.
NewSession ==
    [exists |-> TRUE, events |-> <<>>, remoteSessionId |-> NULL,
     ended |-> FALSE]

\* A call slot: kind and pc say where the call is; sid and ev are its
\* arguments (ev is the event's creation number); session is its local
\* variable of that name; found records that its first getSession returned a
\* session; failed that a remote request of it was rejected or not OK; ret is
\* what startSession, endSession or createOrGetUser returned ("session",
\* "user" or "null"; "none" while it runs and for the other calls).
IdleCall ==
    [kind |-> "none", pc |-> "idle", sid |-> NULL, ev |-> NULL,
     session |-> NoSession, found |-> FALSE, failed |-> FALSE, ret |-> "none"]

\* return session / return user / return null
Return(call, value) == [call EXCEPT !.pc = "done", !.ret = value]

FetchOutcomes == {"ok", "nonok", "reject"}

Running(c) == calls[c].pc \notin {"idle", "done", "threw"}

\* session.events.push(event)
PushEvent(session, ev) == [session EXCEPT !.events = Append(@, ev)]

\* Variant: sendLogs goes on to the remote part whether or not a backend URL
\* is configured.
AfterLocalAppendIgnoresUrl == "sl_get2"

\* Where sendLogs continues once its local append is over (line 157).
AfterLocalAppend == IF backendBaseUrl THEN "sl_get2" ELSE "done"

\* Variant: a rejected fetch is not caught in sendLogs; saveEvent's
\* .catch(() => {}) still swallows it, a direct caller gets the rejection.
UncaughtInSendLogs(kind) == IF kind = "sendLogs" THEN "threw" ELSE "done"

\* Where a rejected fetch of sendLogs continues: its catch blocks log the
\* error and fall through to the code after them, which returns null.
CaughtInSendLogs(kind) == "done"

\* ------------------------------------------------------ MediaRecorderManager
ChunkIds == 1..MaxChunks

\* localforage.getItem of a key that holds nothing (null).
NoItem == [exists |-> FALSE, chunks |-> <<>>]

\* An ondataavailable handler that has not been called yet.
IdleChunkCall ==
    [pc |-> "idle", chunk |-> [data |-> NULL, timestamp |-> NULL],
     existingChunks |-> <<>>]

\* Nothing returned in this step.
NoBlob == [kind |-> "none", data |-> <<>>]

\* chunks.map(chunk => chunk.data)
DataOf(chunks) == [i \in 1..Len(chunks) |-> chunks[i].data]

\* ----------------------------------------------------------------- backend
RequestIds == 1..MaxRequests

\* Values of uniqueId and name in a request body ("" is a missing field).
UniqueIds == {"", "u1"}
Names == {"", "Ann", "Bob"}

\* Session ids in a route: the id the first session has or will have.
SessionParams == {1}

\* Items of a logs body: one without timestamp, one without type whose
\* timestamp lies before every server time.
LogItems == {[type |-> "gaze", timestamp |-> NULL],
             [type |-> "", timestamp |-> 500]}

\* Bodies of POST /api/sessions/:id/logs: an array of items, or one item.
LogArrays == UNION {[1..n -> LogItems] : n \in 0..MaxItems}

ArrayBody(items) == [isArray |-> TRUE, value |-> items]

ObjectBody(it) == [isArray |-> FALSE, value |-> it]

\* Queries of GET /api/sessions/:id/logs: none, or page=1&limit=1.
LogQueries == {[page |-> NULL, limit |-> NULL], [page |-> 1, limit |-> 1]}

\* new User({ uniqueId, name, email }): createdAt defaults to Date.now.
NewUser(id, uniqueId, name, t) ==
    [_id |-> id, uniqueId |-> uniqueId, name |-> name, createdAt |-> t]

\* new Session({ user, metadata }): startedAt defaults to Date.now.
NewSessionDoc(id, user, t) ==
    [_id |-> id, user |-> user, startedAt |-> t, endedAt |-> NULL]

NoDoc == [_id |-> NULL]

\* A request slot: route and pc say where the handler is; uniqueId, name,
\* sid, body and query are what the client sent; arrived is the arrival time;
\* doc is the handler's local document (user, session) and docs its local
\* list of log documents; status and reply are the response.
IdleRequest ==
    [route |-> "none", pc |-> "idle", uniqueId |-> "", name |-> "",
     sid |-> NULL, body |-> ArrayBody(<<>>),
     query |-> [page |-> NULL, limit |-> NULL], arrived |-> NULL,
     doc |-> NoDoc, docs |-> <<>>, status |-> NULL, reply |-> NoDoc]

Pending(r) == requests[r].pc \notin {"idle", "done"}

\* res.status(status).json(reply)
Respond(req, status, reply) ==
    [req EXCEPT !.pc = "done", !.status = status, !.reply = reply]

ErrorReply(msg) == [error |-> msg]

\* Variant: the lookup by uniqueId never finds a document.
FindOneMisses(uniqueId) == NoDoc

\* User.findOne({ uniqueId })
FindOne(uniqueId) ==
    IF \E i \in 1..Len(users) : users[i].uniqueId = uniqueId
    THEN users[CHOOSE i \in 1..Len(users) : users[i].uniqueId = uniqueId]
    ELSE NoDoc

\* Session.findById(sessionId)
FindById(sid) == IF sid \in 1..Len(sessions) THEN sessions[sid] ELSE NoDoc

\* Variant: the index on uniqueId is not unique, no save is rejected.
DuplicateKeyAccepted(uniqueId) == FALSE

\* The unique index on uniqueId rejects a second document with the same key.
DuplicateKey(uniqueId) ==
    \E i \in 1..Len(users) : users[i].uniqueId = uniqueId

\* Variant: PATCH .../end keeps an end time that is already set.
EndedAtKeepsFirst(session, t) ==
    IF Truthy(session.endedAt) THEN session.endedAt ELSE t

\* session.endedAt = new Date()
EndedAt(session, t) == t

\* Array.isArray(req.body) ? req.body : [req.body]
ItemsOf(body) == IF body.isArray THEN body.value ELSE <<body.value>>

\* items.map: type defaults to 'unknown', timestamp to new Date().
LogDoc(sid, it, t) ==
    [session |-> sid,
     type |-> IF it.type # "" THEN it.type ELSE "unknown",
     timestamp |-> IF Truthy(it.timestamp) THEN it.timestamp ELSE t]

LogDocs(sid, items, t) == [i \in 1..Len(items) |-> LogDoc(sid, items[i], t)]

\* Insertion of one document into a list sorted by ascending timestamp,
\* after the documents with the same timestamp.
RECURSIVE InsertByTimestamp(_, _)
InsertByTimestamp(sorted, d) ==
    IF sorted = <<>> THEN <<d>>
    ELSE IF d.timestamp < Head(sorted).timestamp THEN <<d>> \o sorted
    ELSE <<Head(sorted)>> \o InsertByTimestamp(Tail(sorted), d)

\* Variant: the documents are returned in insertion order.
SortUnsorted(docs) == docs

\* .sort({ timestamp: 1 })
RECURSIVE SortByTimestamp(_)
SortByTimestamp(docs) ==
    IF docs = <<>> THEN <<>>
    ELSE InsertByTimestamp(SortByTimestamp(SubSeq(docs, 1, Len(docs) - 1)),
                           docs[Len(docs)])

Min(a, b) == IF a < b THEN a ELSE b

\* page = Math.max(0, parseInt(query.page || '0'))
PageOf(query) == IF Truthy(query.page) THEN query.page ELSE 0

\* limit = Math.min(1000, parseInt(query.limit || '100'))
LimitOf(query) ==
    Min(LogsMaxLimit, IF Truthy(query.limit) THEN query.limit
                      ELSE LogsDefaultLimit)

LogsOf(sid) == SelectSeq(logs, LAMBDA d : d.session = sid)

\* Log.find({ session }).sort({ timestamp: 1 }).skip(page * limit).limit(limit)
FindLogs(sid, page, limit) ==
    LET sorted == SortByTimestamp(LogsOf(sid))
    IN  SubSeq(sorted, page * limit + 1, Min(Len(sorted), page * limit + limit))

\* ------------------------------------------------------------- actions
InitClientOver(keys) ==
    /\ now = StartNow
    /\ detectionActive = FALSE
    /\ faceDetectionInterval = FALSE
    /\ objectDetectionInterval = FALSE
    /\ faceMesh = FALSE
    /\ objectModel = FALSE
    /\ modelStatus = [faceDetection |-> "loading", objectDetection |-> "loading"]
    /\ gazeState = GazeInit
    /\ faceInflight = 0
    /\ noFaceRunEvents = 0
    /\ lookAwayEpisodeEvents = 0
    /\ detectedObjects = [c \in Classes |-> NULL]
    /\ objInflight = <<>>
    /\ lastEmitPoll = NULL
    /\ lastEventTime = [c \in Classes |-> NULL]
    /\ lastSeen = [c \in Classes |-> NULL]
    /\ faceResult = NoResult
    /\ objResult = NoResult
    /\ emitted = <<>>
    /\ backendBaseUrl = FALSE
    /\ store = [sid \in keys |-> NoSession]
    /\ calls = [c \in CallIds |-> IdleCall]
    /\ remoteSessions = <<>>
    /\ everConfigured = FALSE
    /\ localSessionId = NULL
    /\ mediaRecorder = "null"
    /\ recordedChunks = <<>>
    /\ recordingItem = NoItem
    /\ chunkCalls = [c \in ChunkIds |-> IdleChunkCall]
    /\ blob = NoBlob

\* The client as constructed, its store keyed by abstract local ids.
InitClient == InitClientOver(SessionIds)

\* The client as constructed; the backend with empty collections.
Init ==
    /\ InitClient
    /\ users = <<>>
    /\ sessions = <<>>
    /\ logs = <<>>
    /\ requests = [r \in RequestIds |-> IdleRequest]

\* The backend with empty collections, or with the collections POST
\* /api/users and POST /api/sessions left for one candidate at StartNow.
InitBackend ==
    /\ InitClient
    /\ \/ users = <<>> /\ sessions = <<>>
       \/ /\ users = <<NewUser(1, "u1", "Ann", StartNow)>>
          /\ sessions = <<NewSessionDoc(1, 1, StartNow)>>
    /\ logs = <<>>
    /\ requests = [r \in RequestIds |-> IdleRequest]

\* A step that hands nothing to a callback and creates no event.
NoOutput ==
    /\ faceResult' = NoResult
    /\ objResult' = NoResult
    /\ emitted' = <<>>

\* Time passes: Date.now() grows by step, up to limit.
Tick(step, limit) ==
    /\ now + step <= limit
    /\ now' = now + step

\* onModelLoad(type, success): the status is recorded and a system event
\* created.
ModelLoadEvent(type, success) ==
    Event("system",
          IF success THEN type \o " model loaded" ELSE type \o " model failed",
          IF success THEN "low" ELSE "high")

OnModelLoad(type, success) ==
    /\ modelStatus' = [modelStatus EXCEPT
                          ![type] = IF success THEN "ready" ELSE "error"]
    /\ emitted' = <<ModelLoadEvent(type, success)>>
    /\ faceResult' = NoResult
    /\ objResult' = NoResult

\* initializeFaceMesh, run once by initialize(): the provider is built and
\* faceMesh set, or building it throws and faceMesh stays null.  initialize()
\* starts both loads under Promise.all; they may finish in either order.
InitializeFaceMesh(ok) ==
    /\ modelStatus.faceDetection = "loading"
    /\ faceMesh' = ok
    /\ OnModelLoad("faceDetection", ok)
    /\ UNCHANGED <<now, engineVars, objectModel, faceState, objState,
                   storeVars>>

\* initializeObjectDetection, run once by initialize(): cocoSsd.load()
\* resolves and objectModel is set, or it rejects and objectModel stays null.
InitializeObjectDetection(ok) ==
    /\ modelStatus.objectDetection = "loading"
    /\ objectModel' = ok
    /\ OnModelLoad("objectDetection", ok)
    /\ UNCHANGED <<now, engineVars, faceMesh, faceState, objState, storeVars>>

\* Variant: startDetection without its early return.
StartDetectionUnguarded ==
    /\ detectionActive' = TRUE
    /\ faceDetectionInterval' = TRUE
    /\ objectDetectionInterval' = TRUE
    /\ NoOutput
    /\ UNCHANGED <<now, faceState, objState, loadVars,
                   storeVars>>

StartDetection ==
    /\ ~detectionActive
    /\ detectionActive' = TRUE
    /\ faceDetectionInterval' = TRUE
    /\ objectDetectionInterval' = TRUE
    /\ NoOutput
    /\ UNCHANGED <<now, faceState, objState, loadVars,
                   storeVars>>

\* Variant: stopDetection clears the face timer only.
StopDetectionKeepsObjectTimer ==
    /\ detectionActive' = FALSE
    /\ faceDetectionInterval' = FALSE
    /\ NoOutput
    /\ UNCHANGED <<now, objectDetectionInterval, faceState, objState, loadVars,
                   storeVars>>

\* Variant: stopDetection also starts the tracker and the debounce map afresh.
StopDetectionResetsTracker ==
    /\ detectionActive' = FALSE
    /\ faceDetectionInterval' = FALSE
    /\ objectDetectionInterval' = FALSE
    /\ gazeState' = GazeInit
    /\ detectedObjects' = [c \in Classes |-> NULL]
    /\ NoOutput
    /\ UNCHANGED <<now, faceInflight, noFaceRunEvents, lookAwayEpisodeEvents,
                   objInflight, lastEmitPoll, lastEventTime, lastSeen,
                   loadVars, storeVars>>

StopDetection ==
    /\ detectionActive' = FALSE
    /\ faceDetectionInterval' = FALSE
    /\ objectDetectionInterval' = FALSE
    /\ NoOutput
    /\ UNCHANGED <<now, faceState, objState, loadVars,
                   storeVars>>

\* Variant: runFaceDetection without the null check on faceMesh.
RunFaceDetectionUnguarded ==
    /\ faceDetectionInterval
    /\ detectionActive
    /\ faceInflight < MaxFaceInflight
    /\ faceInflight' = faceInflight + 1
    /\ NoOutput
    /\ UNCHANGED <<now, engineVars, gazeState, noFaceRunEvents,
                   lookAwayEpisodeEvents, objState, loadVars, storeVars>>

\* The face timer fires: runFaceDetection sends the frame to the provider.
RunFaceDetection ==
    /\ faceDetectionInterval
    /\ faceMesh
    /\ detectionActive
    /\ faceInflight < MaxFaceInflight
    /\ faceInflight' = faceInflight + 1
    /\ NoOutput
    /\ UNCHANGED <<now, engineVars, gazeState, noFaceRunEvents,
                   lookAwayEpisodeEvents, objState, loadVars,
                   storeVars>>

\* The provider delivers a result: onFaceMeshResults, then onFaceDetection.
OnFaceMeshResults(faceCount, cur) ==
    /\ faceInflight > 0
    /\ faceInflight' = faceInflight - 1
    /\ objResult' = NoResult
    /\ IF ~detectionActive
       THEN /\ faceResult' = NoResult
            /\ emitted' = <<>>
            /\ UNCHANGED <<gazeState, noFaceRunEvents, lookAwayEpisodeEvents>>
       ELSE LET g == TrackerUpdate(gazeState, now, faceCount, cur)
                res == MakeFaceResult(g, now, faceCount)
                episodeKept == /\ Truthy(gazeState.lookAwayStart)
                               /\ Truthy(g.lookAwayStart)
            IN  /\ gazeState' = CallbackGaze(g, res)
                /\ faceResult' = res
                /\ emitted' = CallbackEvents(g, res)
                /\ noFaceRunEvents' =
                     IF faceCount > 0 THEN 0
                     ELSE noFaceRunEvents
                          + (IF NoFaceFires(g, res) THEN 1 ELSE 0)
                /\ lookAwayEpisodeEvents' =
                     (IF episodeKept THEN lookAwayEpisodeEvents ELSE 0)
                     + (IF LookAwayFires(g, res) THEN 1 ELSE 0)
    /\ UNCHANGED <<now, engineVars, objState, loadVars,
                   storeVars>>

FaceResultArrives ==
    \E faceCount \in 0..MaxFaces, cur \in BOOLEAN :
        OnFaceMeshResults(faceCount, cur)

\* Face results are observed on a grid of one look-away threshold (5 s): the
\* grid holds both thresholds exactly and the first instant beyond each.
FaceTick ==
    /\ Tick(LookAwayThreshold * 1000, MaxNow)
    /\ NoOutput
    /\ UNCHANGED <<engineVars, faceState, objState, loadVars,
                   storeVars>>

NextFace ==
    \/ FaceTick
    \/ \E ok \in BOOLEAN : InitializeFaceMesh(ok)
    \/ StartDetection
    \/ StopDetection
    \/ RunFaceDetection
    \/ FaceResultArrives

SpecFace == Init /\ [][NextFace]_vars

\* The object timer fires every ObjectIntervalMs: runObjectDetection draws the
\* frame and starts an inference, unless detection is off or the video is not
\* ready.
ObjTick ==
    /\ Tick(ObjectIntervalMs, MaxObjNow)
    /\ \/ /\ objectDetectionInterval
          /\ objectModel
          /\ detectionActive
          /\ Len(objInflight) < MaxObjInflight
          /\ objInflight' = Append(objInflight, now')
       \/ UNCHANGED objInflight
    /\ NoOutput
    /\ UNCHANGED <<engineVars, faceState, detectedObjects, lastEmitPoll,
                   lastEventTime, lastSeen, loadVars,
                   storeVars>>

\* The inference started by poll objInflight[i] resolves with the predictions
\* of its frame: the rest of runObjectDetection, and onObjectDetection (run
\* once; st is the <<map, events, currentObjects>> it leaves).
ObjectResult(i, frame) ==
    /\ i \in 1..Len(objInflight)
    /\ objInflight' = RemoveAt(objInflight, i)
    /\ faceResult' = NoResult
    /\ \E detected \in {FilterPredictions(frame)},
          st \in {OnObjectDetection(detectedObjects,
                                    FilterPredictions(frame), now)} :
         LET poll == objInflight[i]
         IN
           IF Len(detected) > 0
           THEN /\ detectedObjects' = st.map
                /\ emitted' = st.events
                /\ objResult' = [kind |-> "object",
                                 currentObjects |-> st.current]
                /\ lastEmitPoll' = IF st.events # <<>> THEN poll
                                   ELSE lastEmitPoll
                /\ lastEventTime' =
                     [c \in Classes |->
                        IF c \in EventClasses(st.events) THEN now
                        ELSE lastEventTime[c]]
           ELSE /\ emitted' = <<>>
                /\ objResult' = NoResult
                /\ UNCHANGED <<detectedObjects, lastEmitPoll, lastEventTime>>
    /\ UNCHANGED <<now, engineVars, faceState, loadVars,
                   storeVars>>

ObjectResultArrives ==
    \E i \in 1..MaxObjInflight, frame \in DistinctFrames :
        ObjectResult(i, frame) /\ UNCHANGED lastSeen

NextObject ==
    \/ ObjTick
    \/ \E ok \in BOOLEAN : InitializeObjectDetection(ok)
    \/ StartDetection
    \/ StopDetection
    \/ ObjectResultArrives

SpecObject == Init /\ [][NextObject]_vars

\* The object timer fires when no inference is pending: every detect()
\* resolves before the next tick, so frames are handled in poll order.
ObjTickAwaited ==
    /\ objInflight = <<>>
    /\ ObjTick

\* The classes onObjectDetection finds in the frame are seen now.
SeenAfter(frame) ==
    LET st == OnObjectDetection(detectedObjects, FilterPredictions(frame), now)
    IN  [c \in Classes |-> IF c \in st.current THEN now ELSE lastSeen[c]]

ObjectFrameArrives ==
    \E frame \in DistinctFrames :
        /\ ObjectResult(1, frame)
        /\ lastSeen' = SeenAfter(frame)

NextObjectSeq ==
    \/ ObjTickAwaited
    \/ \E ok \in BOOLEAN : InitializeObjectDetection(ok)
    \/ StartDetection
    \/ StopDetection
    \/ ObjectFrameArrives

SpecObjectSeq == Init /\ [][NextObjectSeq]_vars

\* ------------------------------------------- both polling loops together
\* faceMesh.send() rejects: runFaceDetection's catch logs the error.
FaceSendRejects ==
    /\ faceInflight > 0
    /\ faceInflight' = faceInflight - 1
    /\ faceResult' = ErrorResult
    /\ objResult' = NoResult
    /\ emitted' = <<>>
    /\ UNCHANGED <<now, engineVars, gazeState, noFaceRunEvents,
                   lookAwayEpisodeEvents, objState, loadVars, storeVars>>

\* Variant: the catch of runObjectDetection also clears the object timer.
ObjectDetectRejectsClearsTimer(i) ==
    /\ i \in 1..Len(objInflight)
    /\ objInflight' = RemoveAt(objInflight, i)
    /\ objResult' = ErrorResult
    /\ faceResult' = NoResult
    /\ emitted' = <<>>
    /\ objectDetectionInterval' = FALSE
    /\ UNCHANGED <<now, detectionActive, faceDetectionInterval, faceState,
                   detectedObjects, lastEmitPoll, lastEventTime, lastSeen,
                   loadVars, storeVars>>

\* objectModel.detect() of poll objInflight[i] rejects: runObjectDetection's
\* catch logs the error.
ObjectDetectRejects(i) ==
    /\ i \in 1..Len(objInflight)
    /\ objInflight' = RemoveAt(objInflight, i)
    /\ objResult' = ErrorResult
    /\ faceResult' = NoResult
    /\ emitted' = <<>>
    /\ UNCHANGED <<now, engineVars, faceState, detectedObjects, lastEmitPoll,
                   lastEventTime, lastSeen, loadVars, storeVars>>

\* The object timer fires and runObjectDetection passes its guard: an
\* inference is started for the frame of this tick.
EngineObjPoll ==
    /\ Tick(ObjectIntervalMs, MaxEngineNow)
    /\ objectDetectionInterval
    /\ objectModel
    /\ detectionActive
    /\ Len(objInflight) < MaxObjInflight
    /\ objInflight' = Append(objInflight, now')
    /\ NoOutput
    /\ UNCHANGED <<engineVars, faceState, detectedObjects, lastEmitPoll,
                   lastEventTime, lastSeen, loadVars, storeVars>>

\* A second passes in which runObjectDetection starts nothing (timer off,
\* model missing, detection inactive or the video not ready).
EngineIdleTick ==
    /\ Tick(ObjectIntervalMs, MaxEngineNow)
    /\ NoOutput
    /\ UNCHANGED <<engineVars, faceState, objState, loadVars, storeVars>>

\* Face results of the joint model: no face, or one face looking ahead.
EngineFaceResult ==
    \E faceCount \in 0..1 : OnFaceMeshResults(faceCount, FALSE)

\* Frames of the joint model: at most one qualifying object.
EngineFrames == {f \in DistinctFrames : Len(f) <= 1}

EngineObjectResult ==
    \E i \in 1..MaxObjInflight, frame \in EngineFrames :
        ObjectResult(i, frame) /\ UNCHANGED lastSeen

NextEngine ==
    \/ \E ok \in BOOLEAN : InitializeFaceMesh(ok)
    \/ \E ok \in BOOLEAN : InitializeObjectDetection(ok)
    \/ StartDetection
    \/ StopDetection
    \/ EngineObjPoll
    \/ EngineIdleTick
    \/ RunFaceDetection
    \/ FaceSendRejects
    \/ EngineFaceResult
    \/ \E i \in 1..MaxObjInflight : ObjectDetectRejects(i)
    \/ EngineObjectResult

SpecEngine == Init /\ [][NextEngine]_vars

\* ---------------------------------------------------- StorageManager steps
StoreStep(c, call, st, remote) ==
    /\ calls' = [calls EXCEPT ![c] = call]
    /\ store' = st
    /\ remoteSessions' = remote
    /\ UNCHANGED <<engineState, backendBaseUrl, everConfigured,
                   localSessionId, dbVars, requests, recorderVars>>

SetBackendBaseUrl(url) ==
    /\ backendBaseUrl # url
    /\ backendBaseUrl' = url
    /\ everConfigured' = (everConfigured \/ url)
    /\ UNCHANGED <<engineState, store, calls, remoteSessions,
                   localSessionId, dbVars, requests, recorderVars>>

\* A caller starts call c (slots are used in invocation order).  startSession
\* makes up a fresh local id; the other calls are given the id of a session
\* their caller found in the store or got back from startSession.
Invoke(c, kind, sid) ==
    /\ calls[c].pc = "idle"
    /\ c > 1 => calls[c - 1].pc # "idle"
    /\ IF kind = "startSession"
       THEN /\ ~store[sid].exists
            /\ \A d \in CallIds : Running(d) /\ calls[d].kind = kind
                                      => calls[d].sid # sid
       ELSE store[sid].exists
    /\ StoreStep(c,
          [IdleCall EXCEPT
             !.kind = kind, !.sid = sid, !.ev = c,
             !.session = IF kind = "startSession" THEN NewSession
                         ELSE NoSession,
             !.pc = CASE kind = "saveEvent" -> "se_get"
                      [] kind = "sendLogs" -> "sl_get"
                      [] kind = "startSession" -> "ss_put"
                      [] kind = "endSession" -> "es_get"],
          store, remoteSessions)

CallKinds == {"saveEvent", "sendLogs", "startSession", "endSession"}

\* saveEvent: getSession resolves; the event is pushed on the copy read.
SaveEventGet(c) ==
    /\ calls[c].pc = "se_get"
    /\ LET s == store[calls[c].sid]
       IN  StoreStep(c,
             IF s.exists
             THEN [calls[c] EXCEPT !.session = PushEvent(s, calls[c].ev),
                                   !.found = TRUE, !.pc = "se_put"]
             ELSE [calls[c] EXCEPT !.pc = "done"],
             store, remoteSessions)

\* saveEvent: saveSession writes the copy; sendLogs is called.
SaveEventPut(c) ==
    /\ calls[c].pc = "se_put"
    /\ StoreStep(c, [calls[c] EXCEPT !.pc = "sl_get"],
                 [store EXCEPT ![calls[c].sid] = calls[c].session],
                 remoteSessions)

\* sendLogs: the first getSession resolves; the item is pushed on the copy.
SendLogsGet(c) ==
    /\ calls[c].pc = "sl_get"
    /\ LET s == store[calls[c].sid]
       IN  StoreStep(c,
             IF s.exists
             THEN [calls[c] EXCEPT
                     !.session = PushEvent(s, calls[c].ev),
                     !.found = IF calls[c].kind = "sendLogs" THEN TRUE ELSE @,
                     !.pc = "sl_put"]
             ELSE [calls[c] EXCEPT !.pc = AfterLocalAppend],
             store, remoteSessions)

\* sendLogs: saveSession writes the copy; without a backend it returns null.
SendLogsPut(c) ==
    /\ calls[c].pc = "sl_put"
    /\ StoreStep(c, [calls[c] EXCEPT !.pc = AfterLocalAppend],
                 [store EXCEPT ![calls[c].sid] = calls[c].session],
                 remoteSessions)

\* sendLogs: the second getSession resolves (line 159).
SendLogsGetAgain(c) ==
    /\ calls[c].pc = "sl_get2"
    /\ LET s == store[calls[c].sid]
       IN  StoreStep(c,
             [calls[c] EXCEPT
                !.session = s,
                !.pc = IF ~s.exists THEN "done"
                       ELSE IF ~Truthy(s.remoteSessionId) THEN "sl_create"
                       ELSE "sl_logs"],
             store, remoteSessions)

\* sendLogs: POST /api/sessions answers (lines 169-181).
SendLogsCreate(c, outcome) ==
    /\ calls[c].pc = "sl_create"
    /\ IF outcome = "ok"
       THEN LET remote == Append(remoteSessions, calls[c].sid)
            IN  StoreStep(c,
                  [calls[c] EXCEPT !.session.remoteSessionId = Len(remote),
                                   !.pc = "sl_putRemote"],
                  store, remote)
       ELSE StoreStep(c,
              [calls[c] EXCEPT
                 !.failed = TRUE,
                 !.pc = IF outcome = "reject"
                        THEN CaughtInSendLogs(calls[c].kind) ELSE "done"],
              store, remoteSessions)

\* sendLogs: saveSession writes the copy carrying remoteSessionId (line 177).
SendLogsPutRemote(c) ==
    /\ calls[c].pc = "sl_putRemote"
    /\ StoreStep(c, [calls[c] EXCEPT !.pc = "sl_logs"],
                 [store EXCEPT ![calls[c].sid] = calls[c].session],
                 remoteSessions)

\* sendLogs: POST /api/sessions/:id/logs answers (lines 186-202).
SendLogsPost(c, outcome) ==
    /\ calls[c].pc = "sl_logs"
    /\ StoreStep(c,
          [calls[c] EXCEPT
             !.failed = IF outcome = "ok" THEN @ ELSE TRUE,
             !.pc = IF outcome = "reject"
                    THEN CaughtInSendLogs(calls[c].kind) ELSE "done"],
          store, remoteSessions)

\* startSession: the first saveSession writes the new session (line 111).
StartSessionPut(c) ==
    /\ calls[c].pc = "ss_put"
    /\ StoreStep(c,
          IF backendBaseUrl THEN [calls[c] EXCEPT !.pc = "ss_create"]
          ELSE Return(calls[c], "session"),
          [store EXCEPT ![calls[c].sid] = calls[c].session],
          remoteSessions)

\* Variant: a failed POST /api/sessions is rethrown to startSession's caller.
StartSessionFailsThrows(call) == [call EXCEPT !.failed = TRUE, !.pc = "threw"]

\* startSession: the fetch rejected or answered not OK; the warning is logged
\* and the local session returned (lines 130-134).
StartSessionFails(call) == Return([call EXCEPT !.failed = TRUE], "session")

\* startSession: POST /api/sessions answers (lines 116-134).
StartSessionCreate(c, outcome) ==
    /\ calls[c].pc = "ss_create"
    /\ IF outcome = "ok"
       THEN LET remote == Append(remoteSessions, calls[c].sid)
            IN  StoreStep(c,
                  [calls[c] EXCEPT !.session.remoteSessionId = Len(remote),
                                   !.pc = "ss_put2"],
                  store, remote)
       ELSE StoreStep(c, StartSessionFails(calls[c]), store, remoteSessions)

\* startSession: the second saveSession writes its session object (line 129).
StartSessionPutRemote(c) ==
    /\ calls[c].pc = "ss_put2"
    /\ StoreStep(c, Return(calls[c], "session"),
                 [store EXCEPT ![calls[c].sid] = calls[c].session],
                 remoteSessions)

\* endSession: getSession resolves; endTime is set on the copy.
EndSessionGet(c) ==
    /\ calls[c].pc = "es_get"
    /\ LET s == store[calls[c].sid]
       IN  StoreStep(c,
             IF s.exists
             THEN [calls[c] EXCEPT !.session = [s EXCEPT !.ended = TRUE],
                                   !.found = TRUE, !.pc = "es_put"]
             ELSE Return(calls[c], "null"),
             store, remoteSessions)

\* endSession: saveSession writes the copy (line 211).
EndSessionPut(c) ==
    /\ calls[c].pc = "es_put"
    /\ StoreStep(c,
          IF backendBaseUrl /\ Truthy(calls[c].session.remoteSessionId)
          THEN [calls[c] EXCEPT !.pc = "es_end"]
          ELSE Return(calls[c], "session"),
          [store EXCEPT ![calls[c].sid] = calls[c].session],
          remoteSessions)

\* endSession: PATCH /api/sessions/:id/end answers (lines 214-227).
EndSessionPatch(c, outcome) ==
    /\ calls[c].pc = "es_end"
    /\ StoreStep(c,
          Return([calls[c] EXCEPT !.failed = IF outcome = "ok" THEN @
                                            ELSE TRUE],
                 "session"),
          store, remoteSessions)

\* createOrGetUser(uniqueId, name): missing arguments throw; without a backend
\* null is returned at once; otherwise POST /api/users is issued (lines 78-87).
CreateOrGetUser(c, valid) ==
    /\ calls[c].pc = "idle"
    /\ c > 1 => calls[c - 1].pc # "idle"
    /\ LET call == [IdleCall EXCEPT !.kind = "createOrGetUser"]
       IN  StoreStep(c,
             IF ~valid THEN [call EXCEPT !.pc = "threw"]
             ELSE IF ~backendBaseUrl THEN Return(call, "null")
             ELSE [call EXCEPT !.pc = "cu_post"],
             store, remoteSessions)

\* createOrGetUser: POST /api/users answers (lines 88-97).
CreateOrGetUserPost(c, outcome) ==
    /\ calls[c].pc = "cu_post"
    /\ StoreStep(c,
          IF outcome = "ok" THEN Return(calls[c], "user")
          ELSE Return([calls[c] EXCEPT !.failed = TRUE], "null"),
          store, remoteSessions)

CallStep(c) ==
    \/ SaveEventGet(c)
    \/ SaveEventPut(c)
    \/ SendLogsGet(c)
    \/ SendLogsPut(c)
    \/ SendLogsGetAgain(c)
    \/ \E o \in FetchOutcomes : SendLogsCreate(c, o)
    \/ SendLogsPutRemote(c)
    \/ \E o \in FetchOutcomes : SendLogsPost(c, o)
    \/ StartSessionPut(c)
    \/ \E o \in FetchOutcomes : StartSessionCreate(c, o)
    \/ StartSessionPutRemote(c)
    \/ EndSessionGet(c)
    \/ EndSessionPut(c)
    \/ \E o \in FetchOutcomes : EndSessionPatch(c, o)
    \/ \E o \in FetchOutcomes : CreateOrGetUserPost(c, o)

\* Calls overlap freely: any running call may take its next step.
NextStore ==
    \/ \E url \in BOOLEAN : SetBackendBaseUrl(url)
    \/ \E c \in CallIds, k \in CallKinds, sid \in SessionIds : Invoke(c, k, sid)
    \/ \E c \in CallIds, valid \in BOOLEAN : CreateOrGetUser(c, valid)
    \/ \E c \in CallIds : CallStep(c)

SpecStore == Init /\ [][NextStore]_vars

\* One call at a time: a call starts only when no other call is running.
InvokeAlone(c, kind, sid) ==
    /\ \A d \in CallIds : ~Running(d)
    /\ Invoke(c, kind, sid)

NextStoreSeq ==
    \/ \E url \in BOOLEAN : SetBackendBaseUrl(url)
    \/ \E c \in CallIds, k \in CallKinds, sid \in SessionIds :
          InvokeAlone(c, k, sid)
    \/ \E c \in CallIds, valid \in BOOLEAN :
          (\A d \in CallIds : ~Running(d)) /\ CreateOrGetUser(c, valid)
    \/ \E c \in CallIds : CallStep(c)

SpecStoreSeq == Init /\ [][NextStoreSeq]_vars

\* ------------------------------------------------ VideoProctoring.addEvent
\* The local ids `${uniqueId}-${Date.now()}` startSession can make up for the
\* page's candidate, named by their time part.
AddEventIds == 1..MaxAddEvents

LocalIds == {t \in StartNow..MaxPageNow : t % 1000 = 0}

\* VideoProctoring mounted for a candidate who has no local session: the
\* lookup of its mount effect found none and left localSessionId null.
InitPage ==
    /\ InitClientOver(LocalIds)
    /\ users = <<>>
    /\ sessions = <<>>
    /\ logs = <<>>
    /\ requests = [r \in RequestIds |-> IdleRequest]

\* StorageManager.saveEvent(sid, event) as called by addEvent.
SaveEventCall(sid, ev) ==
    [IdleCall EXCEPT !.kind = "saveEvent", !.sid = sid, !.ev = ev,
                     !.pc = "se_get"]

\* StorageManager.startSession as called by addEvent, up to its first await:
\* the local id is made from Date.now().
StartSessionCall(ev) ==
    [IdleCall EXCEPT !.kind = "startSession", !.sid = now, !.ev = ev,
                     !.session = NewSession, !.pc = "ss_put"]

\* sessions.find(s => s.candidateName === candidateName) over getAllSessions'
\* result, which is sorted by startTime, latest first (NULL: undefined).  All
\* sessions of the model are the candidate's.
Matched ==
    IF \E k \in LocalIds : store[k].exists
    THEN CHOOSE k \in LocalIds :
            /\ store[k].exists
            /\ \A j \in LocalIds : store[j].exists => j <= k
    ELSE NULL

PageStep(a, call, sid) ==
    /\ calls' = [calls EXCEPT ![a] = call]
    /\ localSessionId' = sid
    /\ UNCHANGED <<engineState, backendBaseUrl, store, remoteSessions,
                   everConfigured, dbVars, requests, recorderVars>>

\* addEvent (lines 71-151): event number a is created and its persistence
\* block runs up to its first await.  seen is the localSessionId of the render
\* whose addEvent the caller holds: the latest one, or the first one (null)
\* for the callbacks handed to the DetectionEngine when it was constructed.
AddEvent(a, seen) ==
    /\ calls[a].pc = "idle"
    /\ a > 1 => calls[a - 1].pc # "idle"
    /\ PageStep(a,
          IF Truthy(seen) THEN SaveEventCall(seen, a)
          ELSE [IdleCall EXCEPT !.kind = "addEvent", !.ev = a,
                                !.pc = "ae_getAll"],
          localSessionId)

\* addEvent: getAllSessions resolves (lines 116-144).  A matching session is
\* adopted and the event saved to it; otherwise startSession is called.
AddEventGetAll(a) ==
    /\ calls[a].pc = "ae_getAll"
    /\ IF Truthy(Matched)
       THEN PageStep(a, SaveEventCall(Matched, a), Matched)
       ELSE PageStep(a, StartSessionCall(a), localSessionId)

\* addEvent: startSession returned newSession (lines 134-135).
AddEventStarted(a) ==
    /\ calls[a].kind = "startSession"
    /\ calls[a].pc = "done"
    /\ PageStep(a, SaveEventCall(calls[a].sid, a), calls[a].sid)

PageTick ==
    /\ Tick(1000, MaxPageNow)
    /\ NoOutput
    /\ UNCHANGED <<engineVars, loadVars, faceState, objState, storeVars>>

\* The steps of the StorageManager calls addEvent makes.
PageCallStep(c) ==
    \/ SaveEventGet(c)
    \/ SaveEventPut(c)
    \/ SendLogsGet(c)
    \/ SendLogsPut(c)
    \/ SendLogsGetAgain(c)
    \/ \E o \in FetchOutcomes : SendLogsCreate(c, o)
    \/ SendLogsPutRemote(c)
    \/ \E o \in FetchOutcomes : SendLogsPost(c, o)
    \/ StartSessionPut(c)
    \/ \E o \in FetchOutcomes : StartSessionCreate(c, o)
    \/ StartSessionPutRemote(c)

\* addEvent is called at any time; the persistence blocks overlap freely.
NextPage ==
    \/ PageTick
    \/ \E url \in BOOLEAN : SetBackendBaseUrl(url)
    \/ \E a \in AddEventIds, seen \in {localSessionId, NULL} :
          AddEvent(a, seen)
    \/ \E a \in AddEventIds : AddEventGetAll(a)
    \/ \E a \in AddEventIds : AddEventStarted(a)
    \/ \E c \in AddEventIds : PageCallStep(c)

SpecPage == InitPage /\ [][NextPage]_vars

\* ------------------------------------------------ MediaRecorderManager steps
RecorderStep(rec, mem, item, cc, b) ==
    /\ mediaRecorder' = rec
    /\ recordedChunks' = mem
    /\ recordingItem' = item
    /\ chunkCalls' = cc
    /\ blob' = b
    /\ UNCHANGED <<engineState, clientStore, dbVars, requests>>

\* startRecording: the chunks in memory are dropped (line 31).
StartRecording ==
    /\ mediaRecorder = "null"
    /\ RecorderStep("removing", <<>>, recordingItem, chunkCalls, NoBlob)

\* startRecording: removeItem resolves; the recorder is created and started
\* (lines 32-70).
StartRecordingRemoved ==
    /\ mediaRecorder = "removing"
    /\ RecorderStep("recording", recordedChunks, NoItem, chunkCalls, NoBlob)

\* ondataavailable (lines 42-54): an empty chunk is dropped; any other is
\* stamped, pushed on recordedChunks and handed to storeChunk, whose getItem
\* is issued.
DataAvailable(c, size) ==
    /\ mediaRecorder = "recording"
    /\ chunkCalls[c].pc = "idle"
    /\ c > 1 => chunkCalls[c - 1].pc # "idle"
    /\ IF size > 0
       THEN LET chunk == [data |-> c, timestamp |-> now]
            IN  RecorderStep(mediaRecorder, Append(recordedChunks, chunk),
                             recordingItem,
                             [chunkCalls EXCEPT ![c].pc = "sc_get",
                                                ![c].chunk = chunk],
                             NoBlob)
       ELSE RecorderStep(mediaRecorder, recordedChunks, recordingItem,
                         [chunkCalls EXCEPT ![c].pc = "empty"], NoBlob)

\* storeChunk: existingChunks after getItem (lines 121-124).
ExistingChunks(item) == IF item.exists THEN item.chunks ELSE <<>>

\* storeChunk: getItem resolves and the chunk is pushed on the list read
\* (lines 121-126); a rejected getItem is caught and the chunk not stored.
StoreChunkGet(c, ok) ==
    /\ chunkCalls[c].pc = "sc_get"
    /\ RecorderStep(mediaRecorder, recordedChunks, recordingItem,
          IF ok
          THEN [chunkCalls EXCEPT
                  ![c].existingChunks =
                      Append(ExistingChunks(recordingItem), chunkCalls[c].chunk),
                  ![c].pc = "sc_set"]
          ELSE [chunkCalls EXCEPT ![c].pc = "failed"],
          NoBlob)

\* storeChunk: setItem writes the list (line 127); a rejected write is caught
\* and recording goes on (lines 136-139).
StoreChunkSet(c, ok) ==
    /\ chunkCalls[c].pc = "sc_set"
    /\ RecorderStep(mediaRecorder, recordedChunks,
          IF ok THEN [exists |-> TRUE, chunks |-> chunkCalls[c].existingChunks]
          ELSE recordingItem,
          [chunkCalls EXCEPT ![c].pc = IF ok THEN "done" ELSE "failed"],
          NoBlob)

\* stopRecording (lines 78-88).
StopRecording ==
    /\ mediaRecorder = "recording"
    /\ RecorderStep("inactive", recordedChunks, recordingItem, chunkCalls,
                    NoBlob)

\* allChunks.sort((a, b) => a.timestamp - b.timestamp)
SortChunks(chunks) == SortByTimestamp(chunks)

\* getRecordingBlob, from the moment its getItem resolves (lines 93-112): the
\* stored chunks sorted by timestamp, or the chunks in memory when nothing is
\* stored, or an error when there are none either.
RecordingBlob ==
    IF ~recordingItem.exists \/ recordingItem.chunks = <<>>
    THEN IF recordedChunks = <<>> THEN [kind |-> "threw", data |-> <<>>]
         ELSE [kind |-> "blob", data |-> DataOf(recordedChunks)]
    ELSE [kind |-> "blob", data |-> DataOf(SortChunks(recordingItem.chunks))]

GetRecordingBlob ==
    /\ mediaRecorder # "null"
    /\ blob # RecordingBlob
    /\ RecorderStep(mediaRecorder, recordedChunks, recordingItem, chunkCalls,
                    RecordingBlob)

RecTick ==
    /\ Tick(1000, MaxRecNow)
    /\ NoOutput
    /\ UNCHANGED <<engineVars, loadVars, faceState, objState, clientStore,
                   dbVars, requests, mediaRecorder, recordedChunks,
                   recordingItem, chunkCalls>>
    /\ blob' = NoBlob

\* The recorder delivers chunks at any time while it records; the storeChunk
\* calls of the handlers overlap freely.
NextRecorder ==
    \/ RecTick
    \/ StartRecording
    \/ StartRecordingRemoved
    \/ \E c \in ChunkIds, size \in {0, 1} : DataAvailable(c, size)
    \/ \E c \in ChunkIds, ok \in BOOLEAN : StoreChunkGet(c, ok)
    \/ \E c \in ChunkIds, ok \in BOOLEAN : StoreChunkSet(c, ok)
    \/ StopRecording
    \/ GetRecordingBlob

SpecRecorder == Init /\ [][NextRecorder]_vars

\* ------------------------------------------------------- backend routes
BackendStep(r, req, u, ss, l) ==
    /\ requests' = [requests EXCEPT ![r] = req]
    /\ users' = u
    /\ sessions' = ss
    /\ logs' = l
    /\ UNCHANGED <<engineState, clientStore, recorderVars>>

\* Request r reaches its handler (slots are used in arrival order); the
\* handler runs up to its first await.
Arrive(r, req) ==
    /\ requests[r].pc = "idle"
    /\ r > 1 => requests[r - 1].pc # "idle"
    /\ BackendStep(r, [req EXCEPT !.arrived = now], users, sessions, logs)

\* Variant: POST /api/users asks for uniqueId only.
UsersPostNameOptional(r, uniqueId, name) ==
    LET req == [IdleRequest EXCEPT !.route = "POST /api/users",
                                   !.uniqueId = uniqueId, !.name = name]
    IN  Arrive(r, IF uniqueId = ""
                  THEN Respond(req, 400, ErrorReply("uniqueId and name required"))
                  ELSE [req EXCEPT !.pc = "up_findOne"])

\* POST /api/users: 400 without uniqueId or name, else User.findOne is awaited.
UsersPost(r, uniqueId, name) ==
    LET req == [IdleRequest EXCEPT !.route = "POST /api/users",
                                   !.uniqueId = uniqueId, !.name = name]
    IN  Arrive(r, IF uniqueId = "" \/ name = ""
                  THEN Respond(req, 400, ErrorReply("uniqueId and name required"))
                  ELSE [req EXCEPT !.pc = "up_findOne"])

\* POST /api/users: findOne resolves; an existing user is returned, else a
\* new User is built and its save awaited.
UsersPostFindOne(r) ==
    /\ requests[r].pc = "up_findOne"
    /\ LET req == requests[r]
           user == FindOne(req.uniqueId)
       IN  BackendStep(r,
             IF Truthy(user._id) THEN Respond(req, 200, user)
             ELSE [req EXCEPT !.doc = NewUser(NULL, req.uniqueId, req.name, now),
                              !.pc = "up_save"],
             users, sessions, logs)

\* POST /api/users: save resolves, or is rejected by the unique index and the
\* catch answers 500.
UsersPostSave(r) ==
    /\ requests[r].pc = "up_save"
    /\ LET req == requests[r]
           user == [req.doc EXCEPT !._id = Len(users) + 1]
       IN  IF DuplicateKey(req.uniqueId)
           THEN BackendStep(r, Respond(req, 500, ErrorReply("server error")),
                            users, sessions, logs)
           ELSE BackendStep(r, Respond([req EXCEPT !.doc = user], 200, user),
                            Append(users, user), sessions, logs)

\* POST /api/sessions: 400 without uniqueId, else User.findOne is awaited.
SessionsPost(r, uniqueId) ==
    LET req == [IdleRequest EXCEPT !.route = "POST /api/sessions",
                                   !.uniqueId = uniqueId]
    IN  Arrive(r, IF uniqueId = ""
                  THEN Respond(req, 400, ErrorReply("uniqueId required"))
                  ELSE [req EXCEPT !.pc = "sp_findOne"])

\* POST /api/sessions: findOne resolves; 404 without a user, else a new
\* Session is built and its save awaited.
SessionsPostFindOne(r) ==
    /\ requests[r].pc = "sp_findOne"
    /\ LET req == requests[r]
           user == FindOne(req.uniqueId)
       IN  BackendStep(r,
             IF ~Truthy(user._id)
             THEN Respond(req, 404, ErrorReply("User not found"))
             ELSE [req EXCEPT !.doc = NewSessionDoc(NULL, user._id, now),
                              !.pc = "sp_save"],
             users, sessions, logs)

\* POST /api/sessions: save resolves; 201 with the session.
SessionsPostSave(r) ==
    /\ requests[r].pc = "sp_save"
    /\ LET req == requests[r]
           session == [req.doc EXCEPT !._id = Len(sessions) + 1]
       IN  BackendStep(r, Respond([req EXCEPT !.doc = session], 201, session),
                       users, Append(sessions, session), logs)

\* PATCH /api/sessions/:sessionId/end: Session.findById is awaited.
SessionsEnd(r, sid) ==
    Arrive(r, [IdleRequest EXCEPT !.route = "PATCH /api/sessions/:id/end",
                                  !.sid = sid, !.pc = "end_findById"])

\* PATCH .../end: findById resolves; 404 without a session, else endedAt is
\* set on the document read and its save awaited.
SessionsEndFindById(r) ==
    /\ requests[r].pc = "end_findById"
    /\ LET req == requests[r]
           session == FindById(req.sid)
       IN  BackendStep(r,
             IF ~Truthy(session._id)
             THEN Respond(req, 404, ErrorReply("Session not found"))
             ELSE [req EXCEPT
                     !.doc = [session EXCEPT !.endedAt = EndedAt(session, now)],
                     !.pc = "end_save"],
             users, sessions, logs)

\* PATCH .../end: save writes the modified path endedAt; the document is
\* returned.
SessionsEndSave(r) ==
    /\ requests[r].pc = "end_save"
    /\ LET req == requests[r]
       IN  BackendStep(r, Respond(req, 200, req.doc), users,
                       [sessions EXCEPT ![req.sid].endedAt = req.doc.endedAt],
                       logs)

\* POST /api/sessions/:sessionId/logs: Session.findById is awaited.
LogsPost(r, sid, body) ==
    Arrive(r, [IdleRequest EXCEPT !.route = "POST /api/sessions/:id/logs",
                                  !.sid = sid, !.body = body,
                                  !.pc = "lp_findById"])

\* POST .../logs: findById resolves; 404 without a session, else the
\* documents are built and Log.insertMany awaited.
LogsPostFindById(r) ==
    /\ requests[r].pc = "lp_findById"
    /\ LET req == requests[r]
           session == FindById(req.sid)
       IN  BackendStep(r,
             IF ~Truthy(session._id)
             THEN Respond(req, 404, ErrorReply("Session not found"))
             ELSE [req EXCEPT
                     !.docs = LogDocs(session._id, ItemsOf(req.body), now),
                     !.pc = "lp_insert"],
             users, sessions, logs)

\* POST .../logs: insertMany resolves; 201 with the number created.
LogsPostInsert(r) ==
    /\ requests[r].pc = "lp_insert"
    /\ LET req == requests[r]
       IN  BackendStep(r, Respond(req, 201, [inserted |-> Len(req.docs)]),
                       users, sessions, logs \o req.docs)

\* GET /api/sessions/:sessionId/logs: the query is awaited.
LogsGet(r, sid, query) ==
    Arrive(r, [IdleRequest EXCEPT !.route = "GET /api/sessions/:id/logs",
                                  !.sid = sid, !.query = query,
                                  !.pc = "lg_find"])

\* GET .../logs: the query resolves; the page of logs is returned.
LogsGetFind(r) ==
    /\ requests[r].pc = "lg_find"
    /\ LET req == requests[r]
           page == PageOf(req.query)
           limit == LimitOf(req.query)
       IN  BackendStep(r,
             Respond(req, 200, [logs |-> FindLogs(req.sid, page, limit),
                                page |-> page, limit |-> limit]),
             users, sessions, logs)

\* Server time passes.
BackendTick ==
    /\ Tick(1000, MaxBackendNow)
    /\ UNCHANGED <<engineVars, loadVars, faceState, objState, outVars,
                   storeVars>>

RequestArrives(r) ==
    \/ \E uniqueId \in UniqueIds, name \in Names : UsersPost(r, uniqueId, name)
    \/ \E uniqueId \in UniqueIds : SessionsPost(r, uniqueId)
    \/ \E sid \in SessionParams : SessionsEnd(r, sid)
    \/ \E sid \in SessionParams, items \in LogArrays :
          LogsPost(r, sid, ArrayBody(items))
    \/ \E sid \in SessionParams, it \in LogItems :
          LogsPost(r, sid, ObjectBody(it))
    \/ \E sid \in SessionParams, query \in LogQueries : LogsGet(r, sid, query)

RequestStep(r) ==
    \/ UsersPostFindOne(r)
    \/ UsersPostSave(r)
    \/ SessionsPostFindOne(r)
    \/ SessionsPostSave(r)
    \/ SessionsEndFindById(r)
    \/ SessionsEndSave(r)
    \/ LogsPostFindById(r)
    \/ LogsPostInsert(r)
    \/ LogsGetFind(r)

\* Requests are handled concurrently: any pending handler may resume.
NextBackend ==
    \/ BackendTick
    \/ \E r \in RequestIds : RequestArrives(r)
    \/ \E r \in RequestIds : RequestStep(r)

SpecBackend == InitBackend /\ [][NextBackend]_vars

\* One request at a time: a request arrives only when none is pending.
RequestArrivesAlone(r) ==
    /\ \A d \in RequestIds : ~Pending(d)
    /\ RequestArrives(r)

NextBackendSeq ==
    \/ BackendTick
    \/ \E r \in RequestIds : RequestArrivesAlone(r)
    \/ \E r \in RequestIds : RequestStep(r)

SpecBackendSeq == InitBackend /\ [][NextBackendSeq]_vars

\* POST /api/users alone, for two candidates: the requests overlap freely.
UsersPostArrives(r) ==
    \E uniqueId \in UniqueIds \cup {"u2"}, name \in Names :
        UsersPost(r, uniqueId, name)

NextUsers ==
    \/ BackendTick
    \/ \E r \in RequestIds : UsersPostArrives(r)
    \/ \E r \in RequestIds : UsersPostFindOne(r)
    \/ \E r \in RequestIds : UsersPostSave(r)

SpecUsers == InitBackend /\ [][NextUsers]_vars

\* ----------------------------------------------------------- store claims
Persisted(sid) == store[sid].events

InEvents(ev, sid) == \E i \in 1..Len(Persisted(sid)) : Persisted(sid)[i] = ev

Appends(c) == calls[c].kind \in {"saveEvent", "sendLogs"}

\* C6: at most one remote session is ever created for one local session.
C6_OneRemoteSession ==
    \A sid \in SessionIds :
        Cardinality({i \in 1..Len(remoteSessions) : remoteSessions[i] = sid}) <= 1

\* C7: a saveEvent / sendLogs call on an existing session whose remote request
\* was rejected or answered not-OK returns normally with its event in the
\* session's local events, where it stays; the failing step itself leaves the
\* local store untouched.
C7_EventKept ==
    \A c \in CallIds :
        (Appends(c) /\ calls[c].found /\ calls[c].failed) =>
            /\ calls[c].pc = "done"
            /\ InEvents(calls[c].ev, calls[c].sid)

C7_FailureLeavesStore ==
    \A c \in CallIds :
        (calls'[c].failed /\ ~calls[c].failed) => store' = store

C7_LocalSurvivesRemoteFailure ==
    []C7_EventKept /\ [][C7_FailureLeavesStore]_vars

\* A saveEvent whose remote request failed has returned, its event stored.
C7_Witness ==
    \E c \in CallIds :
        /\ calls[c].kind = "saveEvent" /\ calls[c].failed
        /\ calls[c].pc = "done"
        /\ InEvents(calls[c].ev, calls[c].sid)

\* C8: once every call has returned, each event a saveEvent call appended to
\* an existing session is in that session's persisted events.
C8_NoEventLost ==
    (\A c \in CallIds : ~Running(c)) =>
        \A c \in CallIds :
            (calls[c].kind = "saveEvent" /\ calls[c].found)
                => InEvents(calls[c].ev, calls[c].sid)

\* C9: the events saveEvent persisted in a session are in creation order
\* (events are numbered as addEvent creates them and hands them to saveEvent).
C9_PersistedInCreationOrder ==
    \A sid \in SessionIds :
        \A i, j \in 1..Len(Persisted(sid)) :
            (/\ i < j
             /\ calls[Persisted(sid)[i]].kind = "saveEvent"
             /\ calls[Persisted(sid)[j]].kind = "saveEvent")
                => Persisted(sid)[i] <= Persisted(sid)[j]

\* ---------------------------------------------------------- object claims
ObjectProcessed == objResult.kind = "object"

\* C4: a class among the qualifying detections of every processed frame is
\* alerted at the first frame and again at the first frame more than 3000 ms
\* after its previous alert (so after each processed frame its latest alert
\* is at most 3000 ms old), and two successive alerts of one class are more
\* than 3000 ms apart.
C4_AlertWithin ==
    ObjectProcessed =>
        \A c \in objResult.currentObjects :
            /\ Truthy(lastEventTime[c])
            /\ now - lastEventTime[c] <= 3000

C4_AlertsApart ==
    \A c \in Classes :
        (Truthy(lastEventTime[c]) /\ lastEventTime'[c] # lastEventTime[c])
            => lastEventTime'[c] - lastEventTime[c] > 3000

C4_Debounce == []C4_AlertWithin /\ [][C4_AlertsApart]_vars

\* A frame exactly 3000 ms after the class's alert: still suppressed.
C4_Witness ==
    /\ ObjectProcessed
    /\ "cell phone" \in objResult.currentObjects
    /\ now - lastEventTime["cell phone"] = 3000
    /\ emitted = <<>>

\* C5: while detection is stopped no step changes gazeState or the debounce
\* map, and no step creates an event.
C5_NoEffectWhileStopped ==
    [][(~detectionActive /\ ~detectionActive') =>
         /\ gazeState' = gazeState
         /\ detectedObjects' = detectedObjects
         /\ emitted' = <<>>]_vars

\* C10: object events are created in the order of the polls that produced
\* them: the poll of the latest event never goes back.
C10_EventsInPollOrder == [][lastEmitPoll' >= lastEmitPoll]_vars

\* C11: an entry of the debounce map is removed only when its class has been
\* absent from the frames for more than 5000 ms since a frame last held it.
C11_KeptWhileRecentlySeen ==
    [][\A c \in Classes :
          (Truthy(detectedObjects[c]) /\ ~Truthy(detectedObjects'[c]))
              => now' - lastSeen[c] > EvictMs]_vars

\* C12: after every object-detection poll whose result is processed while
\* detection is active, the map holds no entry that is more than 5000 ms old
\* for a class absent from the poll's detections, also when the poll detects
\* no qualifying object at all.
C12_NoStaleEntryAfterPoll ==
    [][(detectionActive /\ Len(objInflight') < Len(objInflight)) =>
          \A c \in Classes :
              (/\ Truthy(detectedObjects'[c])
               /\ (objResult'.kind = "object"
                      => c \notin objResult'.currentObjects))
                  => now' - detectedObjects'[c] <= EvictMs]_vars

\* C13: after a frame is handled, every class among its qualifying detections
\* has its entry in the map: the frame's sweep removes no such entry, however
\* old, while it may remove the entries of absent classes.
C13_VisibleEntryKept ==
    ObjectProcessed =>
        \A c \in objResult.currentObjects : Truthy(detectedObjects[c])

\* A frame holding a book whose entry is as old as a suppressed repeat allows,
\* handled when the entry of the absent cell phone has been swept.
C13_Witness ==
    /\ ObjectProcessed
    /\ objResult.currentObjects = {"book"}
    /\ now - detectedObjects["book"] = DebounceMs
    /\ Truthy(lastEventTime["cell phone"])
    /\ ~Truthy(detectedObjects["cell phone"])

\* ------------------------------------------------------------ face claims
RECURSIVE TrueCount(_)
TrueCount(h) == IF h = <<>> THEN 0
                ELSE (IF Head(h) THEN 1 ELSE 0) + TrueCount(Tail(h))

FaceProcessed == faceResult.kind = "face"

\* C1: within one maximal run of processed results with faceCount = 0 at most
\* one 'No face detected' event is emitted, and right after a processed result
\* with faceCount > 0 noFaceViolationLogged is false again.
C1_OneNoFaceEventPerRun ==
    /\ noFaceRunEvents <= 1
    /\ (FaceProcessed /\ faceResult.faceCount > 0)
          => ~gazeState.noFaceViolationLogged

\* A no-face result beyond the threshold processed after the run's event was
\* already emitted: nothing is emitted again.
C1_Witness ==
    /\ FaceProcessed /\ faceResult.noFace
    /\ faceResult.noFaceDuration > NoFaceThreshold * 1000
    /\ noFaceRunEvents = 1
    /\ emitted = <<>>

\* C2: within one looking-away episode (lookAwayStart staying set) at most one
\* 'Looking away' event is emitted, however many results are processed.
C2_OneLookAwayEventPerEpisode == lookAwayEpisodeEvents <= 1

C2_Witness ==
    /\ FaceProcessed /\ faceResult.lookingAway
    /\ faceResult.lookAwayDuration > LookAwayThreshold * 1000
    /\ lookAwayEpisodeEvents = 1
    /\ emitted = <<>>

\* C3: a result with a face reports lookingAway exactly when at least 7 of the
\* at most 10 samples held in gazeHistory are true (6 give false, 7 give true).
C3_SevenOfTen ==
    (FaceProcessed /\ ~faceResult.noFace) =>
        /\ Len(gazeState.gazeHistory) <= 10
        /\ faceResult.lookingAway <=> (TrueCount(gazeState.gazeHistory) >= 7)

\* A full window with exactly 7 true samples, reported as looking away.
C3_Witness ==
    /\ FaceProcessed /\ faceResult.lookingAway
    /\ Len(gazeState.gazeHistory) = 10
    /\ TrueCount(gazeState.gazeHistory) = 7

\* A full window with exactly 6 true samples, reported as not looking away.
C3_WitnessSix ==
    /\ FaceProcessed /\ ~faceResult.noFace /\ ~faceResult.lookingAway
    /\ Len(gazeState.gazeHistory) = 10
    /\ TrueCount(gazeState.gazeHistory) = 6

\* Some event created in the last step carries these details.
Emits(details) == \E i \in 1..Len(emitted) : emitted[i].details = details

\* C14: a 'No face detected' violation is emitted only at a result whose
\* noFaceDuration is above 10 s and a 'Looking away' violation only at one
\* whose lookAwayDuration is above 5 s; at every result above the threshold
\* the episode's violation has been emitted, at that result or at an earlier
\* one above the threshold, hence at the first such result.
C14_EmittedAtFirstExcess ==
    FaceProcessed =>
        /\ Emits("No face detected") => faceResult.noFaceDuration > 10 * 1000
        /\ Emits("Looking away") => faceResult.lookAwayDuration > 5 * 1000
        /\ faceResult.noFaceDuration > 10 * 1000 => noFaceRunEvents = 1
        /\ faceResult.lookAwayDuration > 5 * 1000 => lookAwayEpisodeEvents = 1

\* The first result above the no-face threshold: the violation is emitted.
C14_Witness ==
    /\ FaceProcessed
    /\ faceResult.noFaceDuration > 10 * 1000
    /\ Emits("No face detected")

\* A no-face result exactly at the threshold: nothing emitted yet.
C14_WitnessAtThreshold ==
    /\ FaceProcessed
    /\ faceResult.noFaceDuration = 10 * 1000
    /\ noFaceRunEvents = 0
    /\ emitted = <<>>

\* A looking-away result exactly at the threshold: nothing emitted yet.
C14_WitnessLookAwayAtThreshold ==
    /\ FaceProcessed
    /\ faceResult.lookAwayDuration = 5 * 1000
    /\ lookAwayEpisodeEvents = 0
    /\ emitted = <<>>

\* C15: every processed face result with faceCount > 1 produces a 'Multiple
\* faces detected' violation of severity high, whatever the results before it
\* were (no debouncing).
C15_MultipleFacesEveryResult ==
    (FaceProcessed /\ faceResult.faceCount > 1) =>
        /\ emitted # <<>>
        /\ Head(emitted).type = "violation"
        /\ Head(emitted).details = "Multiple faces detected"
        /\ Head(emitted).severity = "high"

\* A result with two faces handled once gazeHistory holds samples of earlier
\* results with a face: the event is emitted again.
C15_Witness ==
    /\ FaceProcessed /\ faceResult.faceCount > 1
    /\ Len(gazeState.gazeHistory) > 1
    /\ Emits("Multiple faces detected")

\* C18: in every state of the gaze tracker noFaceStart is set exactly when
\* hasFace is false, and lookAwayStart is set exactly when a face is present
\* and the smoothed looking-away condition holds.
C18_StartsMatchBelief ==
    /\ Truthy(gazeState.noFaceStart) <=> ~gazeState.hasFace
    /\ Truthy(gazeState.lookAwayStart)
          <=> (gazeState.hasFace /\ Smoothed(gazeState.gazeHistory))

\* C19: each one-shot flag is false after every step in which its *Start
\* changes between absent and set, goes from true to false only in such a
\* step, and goes from false to true only in a step in which the caller
\* emits the corresponding violation.
C19_NoFaceFlag ==
    LET startChanges == Truthy(gazeState.noFaceStart)
                          # Truthy(gazeState'.noFaceStart)
    IN  /\ startChanges => ~gazeState'.noFaceViolationLogged
        /\ (gazeState.noFaceViolationLogged
              /\ ~gazeState'.noFaceViolationLogged) => startChanges
        /\ (~gazeState.noFaceViolationLogged
              /\ gazeState'.noFaceViolationLogged)
                => \E i \in 1..Len(emitted') :
                       emitted'[i].details = "No face detected"

C19_LookAwayFlag ==
    LET startChanges == Truthy(gazeState.lookAwayStart)
                          # Truthy(gazeState'.lookAwayStart)
    IN  /\ startChanges => ~gazeState'.lookAwayViolationLogged
        /\ (gazeState.lookAwayViolationLogged
              /\ ~gazeState'.lookAwayViolationLogged) => startChanges
        /\ (~gazeState.lookAwayViolationLogged
              /\ gazeState'.lookAwayViolationLogged)
                => \E i \in 1..Len(emitted') :
                       emitted'[i].details = "Looking away"

C19_FlagsFollowEpisodes == [][C19_NoFaceFlag /\ C19_LookAwayFlag]_vars

\* The caller has just emitted the no-face violation and latched the flag of
\* the episode that noFaceStart opened.
C19_Witness ==
    /\ FaceProcessed
    /\ Truthy(gazeState.noFaceStart)
    /\ gazeState.noFaceViolationLogged
    /\ Emits("No face detected")

\* C20: a processed result with faceCount = 0 leaves no looking-away episode
\* (lookAwayStart absent, lookAwayViolationLogged false) and reports
\* lookingAway = false with lookAwayDuration = 0; no result reports noFace
\* together with lookingAway or with multipleFaces.
C20_NoFaceClearsLookAway ==
    FaceProcessed =>
        /\ faceResult.faceCount = 0 =>
              /\ ~Truthy(gazeState.lookAwayStart)
              /\ ~gazeState.lookAwayViolationLogged
              /\ ~faceResult.lookingAway
              /\ faceResult.lookAwayDuration = 0
        /\ ~(faceResult.noFace /\ faceResult.lookingAway)
        /\ ~(faceResult.noFace /\ faceResult.multipleFaces)

\* A no-face result handled while gazeHistory still holds 7 or more away
\* samples: the episode those samples opened has been cleared.
C20_Witness ==
    /\ FaceProcessed /\ faceResult.noFace
    /\ Smoothed(gazeState.gazeHistory)
    /\ ~Truthy(gazeState.lookAwayStart)

\* ---------------------------------------------------------- engine claims
\* C16: a provider inference that throws or rejects is caught in its tick:
\* the step leaves detectionActive, both timers and both providers as they
\* were, and while detection stays active the same provider can be invoked
\* again by the next tick.
C16_ErrorLeavesLoops ==
    (faceResult'.kind = "error" \/ objResult'.kind = "error") =>
        UNCHANGED <<detectionActive, faceDetectionInterval,
                    objectDetectionInterval, faceMesh, objectModel>>

C16_PollsAgain ==
    /\ (/\ objResult.kind = "error" /\ detectionActive
        /\ now + ObjectIntervalMs <= MaxEngineNow)
          => ENABLED EngineObjPoll
    /\ (faceResult.kind = "error" /\ detectionActive)
          => ENABLED RunFaceDetection

C16_ErrorsCaughtPerTick == []C16_PollsAgain /\ [][C16_ErrorLeavesLoops]_vars

\* detect() has just rejected while detection is active; the timer is still
\* set and the model still loaded.
C16_Witness ==
    /\ objResult.kind = "error"
    /\ detectionActive /\ objectDetectionInterval /\ objectModel
    /\ now + ObjectIntervalMs <= MaxEngineNow

\* send() has just rejected while detection is active.
C16_WitnessFace ==
    /\ faceResult.kind = "error"
    /\ detectionActive /\ faceDetectionInterval /\ faceMesh

\* C17: a provider that failed to load is reported with status error, is
\* never invoked and never yields a result; the other provider, once loaded,
\* can still be invoked while detection is active.
C17_FailedProviderStaysOff ==
    /\ (modelStatus.faceDetection = "ready") <=> faceMesh
    /\ (modelStatus.objectDetection = "ready") <=> objectModel
    /\ modelStatus.faceDetection = "error" =>
          /\ faceInflight = 0
          /\ faceResult = NoResult
          /\ gazeState = GazeInit
    /\ modelStatus.objectDetection = "error" =>
          /\ objInflight = <<>>
          /\ objResult = NoResult
          /\ \A c \in Classes : ~Truthy(detectedObjects[c])

C17_OtherProviderRuns ==
    /\ (/\ modelStatus.objectDetection = "error" /\ faceMesh
        /\ detectionActive /\ faceInflight < MaxFaceInflight)
          => ENABLED RunFaceDetection
    /\ (/\ modelStatus.faceDetection = "error" /\ objectModel
        /\ detectionActive /\ Len(objInflight) < MaxObjInflight
        /\ now + ObjectIntervalMs <= MaxEngineNow)
          => ENABLED EngineObjPoll

C17_WitnessObject ==
    /\ modelStatus.faceDetection = "error"
    /\ ObjectProcessed
    /\ emitted # <<>>

\* The window before a push, as the push leaves it short of the new sample.
C21_Kept(h) == IF Len(h) < 10 THEN h ELSE Tail(h)

\* C21: gazeHistory never holds more than 10 samples; a result with a face
\* appends its sample at the tail, and when the window already holds 10 the
\* oldest sample is evicted, so the samples before the new one are the earlier
\* window in arrival order (less its head when full); no other step changes it.
C21_FifoStep ==
    LET h == gazeState.gazeHistory
        h2 == gazeState'.gazeHistory
    IN  IF faceResult'.kind = "face" /\ ~faceResult'.noFace
        THEN /\ Len(h2) = Len(C21_Kept(h)) + 1
             /\ SubSeq(h2, 1, Len(h2) - 1) = C21_Kept(h)
        ELSE h2 = h

C21_WindowBounded == Len(gazeState.gazeHistory) <= 10

C21_FifoWindow == []C21_WindowBounded /\ [][C21_FifoStep]_vars

\* A full window whose newest sample differs from the nine before it: the
\* push went to the tail after the window had filled with the other value.
C21_Witness ==
    /\ FaceProcessed /\ ~faceResult.noFace
    /\ Len(gazeState.gazeHistory) = 10
    /\ gazeState.gazeHistory[10]
    /\ \A i \in 1..9 : ~gazeState.gazeHistory[i]

\* C22: every emitted object_detected event has severity high when its class
\* is exactly 'cell phone' and medium for every other class, and it reports a
\* detection whose confidence is above 0.45.
C22_SeverityByClass ==
    \A i \in 1..Len(emitted) :
        emitted[i].type = "object_detected" =>
            /\ emitted[i].severity =
                  (IF emitted[i].details = "cell phone" THEN "high"
                   ELSE "medium")
            /\ emitted[i].confidence > 45

\* One frame that raised both a cell phone alert and a book alert.
C22_Witness ==
    /\ ObjectProcessed
    /\ \E i, j \in 1..Len(emitted) :
          /\ emitted[i].type = "object_detected"
          /\ emitted[i].details = "cell phone"
          /\ emitted[i].severity = "high"
          /\ emitted[j].type = "object_detected"
          /\ emitted[j].details = "book"
          /\ emitted[j].severity = "medium"

\* ------------------------------------------- store claims, second group
C23_Lifecycle(c) == calls[c].kind \in {"startSession", "endSession"}

\* The step that issues the remote request of startSession / endSession is
\* the one at which saveSession has written the new record / the end time.
C23_WrittenBeforeRemote ==
    \A c \in CallIds :
        /\ (calls'[c].pc = "ss_create" /\ calls[c].pc # "ss_create")
              => store'[calls'[c].sid] = NewSession
        /\ (calls'[c].pc = "es_end" /\ calls[c].pc # "es_end")
              => /\ store'[calls'[c].sid].ended
                 /\ store'[calls'[c].sid] = calls'[c].session

\* A call whose remote request failed has returned its local session.
C23_FailureReturnsLocal ==
    \A c \in CallIds :
        (C23_Lifecycle(c) /\ calls[c].failed) =>
            /\ calls[c].pc = "done"
            /\ calls[c].ret = "session"
            /\ calls[c].session.exists
            /\ calls[c].kind = "endSession" => calls[c].session.ended

\* The step at which the remote request fails leaves the store as it was.
C23_NoRollback ==
    \A c \in CallIds :
        (C23_Lifecycle(c)' /\ calls'[c].failed /\ ~calls[c].failed)
            => store' = store

\* C23: startSession and endSession persist their local write (the new
\* session record, the end time) before the remote call is attempted; a
\* rejected or not-OK remote answer neither throws nor rolls that write back,
\* and the call still returns the local session.
C23_LocalFirst ==
    /\ []C23_FailureReturnsLocal
    /\ [][C23_WrittenBeforeRemote /\ C23_NoRollback]_vars

\* A startSession and an endSession whose remote requests both failed: each
\* returned the session, which is stored and ended.
C23_Witness ==
    \E c, d \in CallIds :
        /\ calls[c].kind = "startSession" /\ calls[c].failed
        /\ calls[c].ret = "session"
        /\ calls[d].kind = "endSession" /\ calls[d].failed
        /\ calls[d].ret = "session"
        /\ store[calls[d].sid].ended

\* Positions at which a call has a remote request in flight.
RemotePcs == {"cu_post", "ss_create", "sl_create", "sl_logs", "es_end"}

C24_NoRemoteRequest ==
    /\ \A c \in CallIds : calls[c].pc \notin RemotePcs /\ ~calls[c].failed
    /\ remoteSessions = <<>>

C24_LocalWritesApplied ==
    \A c \in CallIds :
        (calls[c].pc = "done" /\ calls[c].kind # "createOrGetUser") =>
            /\ store[calls[c].sid].exists
            /\ Appends(c) => InEvents(calls[c].ev, calls[c].sid)
            /\ calls[c].kind = "endSession" => store[calls[c].sid].ended

\* C24: as long as no backend base URL has been configured, createOrGetUser,
\* startSession, sendLogs / saveEvent and endSession issue no remote request,
\* and the local writes of startSession, saveEvent and endSession are in the
\* store once the call has returned.
C24_OfflineIsLocalOnly ==
    ~everConfigured => (C24_NoRemoteRequest /\ C24_LocalWritesApplied)

\* Never configured: createOrGetUser returned null, and a session was started,
\* given an event and ended, all in the local store.
C24_Witness ==
    /\ ~everConfigured
    /\ \E c \in CallIds :
          /\ calls[c].kind = "saveEvent" /\ calls[c].pc = "done"
          /\ InEvents(calls[c].ev, calls[c].sid)
    /\ \E c \in CallIds :
          /\ calls[c].kind = "endSession" /\ calls[c].ret = "session"
          /\ store[calls[c].sid].ended

\* Never configured: createOrGetUser returned null without a request.
C24_WitnessUser ==
    /\ ~everConfigured
    /\ \E c \in CallIds :
          calls[c].kind = "createOrGetUser" /\ calls[c].ret = "null"

\* How often event ev occurs in the persisted events of session sid.
Occurrences(ev, sid) ==
    Cardinality({i \in 1..Len(Persisted(sid)) : Persisted(sid)[i] = ev})

\* C30: once a saveEvent on an existing local session has returned, no call
\* having overlapped it, the persisted events hold its event exactly once.
C30_AppendedOnce ==
    \A c \in CallIds :
        (calls[c].kind = "saveEvent" /\ calls[c].found /\ calls[c].pc = "done")
            => Occurrences(calls[c].ev, calls[c].sid) = 1

\* ---------------------------------------------------------- backend claims
Answered(r, route) == requests[r].route = route /\ requests[r].pc = "done"

UsersWith(uniqueId) == {i \in 1..Len(users) : users[i].uniqueId = uniqueId}

\* C25: of two POST /api/users made one after the other with the same
\* uniqueId and different names, both are answered 200 with the same user
\* document, which carries the first call's name when that call created it,
\* and exactly one user with that uniqueId exists.
C25_FirstWriteWins ==
    \A r, q \in RequestIds :
        (/\ r < q
         /\ Answered(r, "POST /api/users") /\ Answered(q, "POST /api/users")
         /\ requests[r].uniqueId # "" /\ requests[r].name # ""
         /\ requests[q].uniqueId = requests[r].uniqueId
         /\ requests[q].name # "" /\ requests[q].name # requests[r].name)
        => /\ requests[r].status = 200 /\ requests[q].status = 200
           /\ requests[q].reply = requests[r].reply
           /\ requests[q].reply.uniqueId = requests[r].uniqueId
           /\ Truthy(requests[r].doc._id)
                 => requests[q].reply.name = requests[r].name
           /\ Cardinality(UsersWith(requests[r].uniqueId)) = 1

\* The first call created the user as Ann; the second, sent with Bob, got
\* the same document back.
C25_Witness ==
    /\ Answered(1, "POST /api/users") /\ Answered(2, "POST /api/users")
    /\ Truthy(requests[1].doc._id)
    /\ requests[1].name = "Ann" /\ requests[2].name = "Bob"
    /\ requests[2].uniqueId = requests[1].uniqueId
    /\ requests[2].status = 200
    /\ requests[2].reply.name = "Ann"

\* C26: every POST /api/users whose body has uniqueId and name is answered
\* with the user of that uniqueId and never with an error, also when two such
\* requests for a uniqueId not yet known are handled concurrently.
C26_NeverAnError ==
    \A r \in RequestIds :
        (/\ Answered(r, "POST /api/users")
         /\ requests[r].uniqueId # "" /\ requests[r].name # "")
        => requests[r].status = 200

IsEnd(r) == Answered(r, "PATCH /api/sessions/:id/end")

\* Two PATCH .../end answered one after the other on a session that existed
\* at the first: both succeed; the second reply's endedAt is a time of the
\* second call, and it is the stored endedAt unless a later PATCH was
\* answered; user and startedAt are as in the first reply.
C27_SecondEndWins ==
    \A r, q \in RequestIds :
        (/\ r < q /\ IsEnd(r) /\ IsEnd(q)
         /\ requests[q].sid = requests[r].sid
         /\ requests[r].status = 200)
        => /\ requests[q].status = 200
           /\ requests[q].reply.endedAt >= requests[q].arrived
           /\ requests[q].reply.endedAt <= now
           /\ requests[q].reply._id = requests[r].reply._id
           /\ requests[q].reply.user = requests[r].reply.user
           /\ requests[q].reply.startedAt = requests[r].reply.startedAt
           /\ (\A p \in RequestIds :
                  (p > q /\ IsEnd(p)) => requests[p].sid # requests[q].sid)
                 => sessions[requests[q].sid] = requests[q].reply

\* A step of PATCH .../end changes nothing but endedAt of its session.
C27_OnlyEndedAt ==
    \A r \in RequestIds :
        (/\ requests'[r] # requests[r]
         /\ requests'[r].route = "PATCH /api/sessions/:id/end")
        => /\ users' = users /\ logs' = logs
           /\ Len(sessions') = Len(sessions)
           /\ \A i \in 1..Len(sessions) :
                 /\ [sessions'[i] EXCEPT !.endedAt = sessions[i].endedAt]
                       = sessions[i]
                 /\ i # requests'[r].sid => sessions'[i] = sessions[i]

\* C27: PATCH /api/sessions/:id/end called twice on an existing session
\* succeeds both times and leaves endedAt equal to the time of the second
\* call; no other field of the session changes.
C27_EndTwice == []C27_SecondEndWins /\ [][C27_OnlyEndedAt]_vars

\* The session was ended twice, the second time later than the first, and
\* holds the second end time.
C27_Witness ==
    /\ IsEnd(1) /\ IsEnd(2)
    /\ requests[1].status = 200 /\ requests[2].status = 200
    /\ requests[2].sid = requests[1].sid
    /\ requests[2].reply.endedAt > requests[1].reply.endedAt
    /\ sessions[requests[2].sid].endedAt = requests[2].reply.endedAt

\* The number of items a logs body stands for: a single object counts as one.
ItemCount(body) == IF body.isArray THEN Len(body.value) ELSE 1

Ascending(docs) ==
    \A i, j \in 1..Len(docs) :
        i < j => docs[i].timestamp <= docs[j].timestamp

Copies(d, docs) == Cardinality({i \in 1..Len(docs) : docs[i] = d})

SameDocuments(a, b) ==
    /\ Len(a) = Len(b)
    /\ \A i \in 1..Len(a) : Copies(a[i], a) = Copies(a[i], b)

IsLogsPost(r) == Answered(r, "POST /api/sessions/:id/logs")

\* C28: POST /api/sessions/:id/logs with an array of k items on an existing
\* session answers inserted = k (a single object counting as an array of
\* one); a later GET of that session's logs with no query, the session
\* holding just those logs, returns exactly those k documents in ascending
\* timestamp order.
C28_InsertedThenListed ==
    \A r \in RequestIds :
        (IsLogsPost(r) /\ requests[r].status # 404) =>
            /\ requests[r].status = 201
            /\ requests[r].reply.inserted = ItemCount(requests[r].body)
            /\ \A q \in RequestIds :
                  (/\ r < q /\ Answered(q, "GET /api/sessions/:id/logs")
                   /\ requests[q].sid = requests[r].sid
                   /\ ~Truthy(requests[q].query.limit)
                   /\ Len(LogsOf(requests[r].sid)) = ItemCount(requests[r].body))
                  => /\ requests[q].status = 200
                     /\ Len(requests[q].reply.logs) = ItemCount(requests[r].body)
                     /\ SameDocuments(requests[q].reply.logs, requests[r].docs)
                     /\ Ascending(requests[q].reply.logs)
                     /\ \A i \in 1..Len(requests[q].reply.logs) :
                           requests[q].reply.logs[i].session = requests[r].sid

\* Two items were posted, the later-stamped first; GET returned them with the
\* earlier-stamped first.
C28_Witness ==
    /\ IsLogsPost(1) /\ requests[1].status = 201
    /\ requests[1].reply.inserted = 2
    /\ requests[1].docs[1].timestamp > requests[1].docs[2].timestamp
    /\ Answered(2, "GET /api/sessions/:id/logs")
    /\ requests[2].sid = requests[1].sid
    /\ Len(requests[2].reply.logs) = 2
    /\ requests[2].reply.logs[1] = requests[1].docs[2]
    /\ requests[2].reply.logs[2] = requests[1].docs[1]

\* A single object was posted and GET returned that one document.
C28_WitnessSingle ==
    /\ IsLogsPost(1) /\ ~requests[1].body.isArray
    /\ requests[1].status = 201
    /\ requests[1].reply.inserted = 1
    /\ Answered(2, "GET /api/sessions/:id/logs")
    /\ requests[2].reply.logs = requests[1].docs

Rejected(req) == req.pc = "done" /\ req.status \in 400..499

\* The step of request r, if this step is one.
C29_StepOf(r) == requests'[r] # requests[r]

C29_Statuses(r) ==
    /\ (/\ requests[r].pc = "idle"
        /\ requests'[r].route = "POST /api/users"
        /\ requests'[r].uniqueId = "" \/ requests'[r].name = "")
          => requests'[r].status = 400
    /\ (/\ requests[r].pc = "sp_findOne"
        /\ UsersWith(requests[r].uniqueId) = {})
          => requests'[r].status = 404
    /\ (/\ requests[r].pc \in {"end_findById", "lp_findById"}
        /\ requests[r].sid \notin 1..Len(sessions))
          => requests'[r].status = 404

C29_WitnessBadRequest ==
    /\ Len(users) = 1 /\ Len(sessions) = 1
    /\ \E r \in RequestIds :
          /\ Answered(r, "POST /api/users") /\ requests[r].name = ""
          /\ requests[r].status = 400

\* POST /api/sessions for a uniqueId of no user was answered 404.
C29_WitnessNoUser ==
    \E r \in RequestIds :
        /\ Answered(r, "POST /api/sessions") /\ requests[r].uniqueId = "u1"
        /\ requests[r].status = 404

\* ---------------------------------------------- claims on addEvent's store
LocalSessions == {k \in DOMAIN store : store[k].exists}

\* C31: concurrent addEvent calls made while the candidate has no local
\* session create at most one local session, and once their persistence is
\* over that session holds the event of every one of them.
C31_OneSessionForCandidate ==
    /\ Cardinality(LocalSessions) <= 1
    /\ (\A a \in AddEventIds :
            calls[a].kind = "saveEvent" /\ calls[a].pc = "done")
          => \E k \in LocalSessions :
                \A a \in AddEventIds : InEvents(calls[a].ev, k)

\* ------------------------------------------------------ claims on event ids
\* C32: the events of the log have pairwise distinct ids, two events created
\* by one face result included.
C32_DistinctIds ==
    \A i, j \in 1..Len(emitted) : i # j => emitted[i].id # emitted[j].id

\* ------------------------------------------------------ claims on recording
\* C33: once every storeChunk call has settled, getRecordingBlob returns every
\* non-empty chunk the recorder delivered since startRecording, once each and
\* in ascending timestamp order, whether or not a storage write failed.
C33_BlobHasEveryChunk ==
    (/\ blob.kind = "blob"
     /\ \A c \in ChunkIds : chunkCalls[c].pc \notin {"sc_get", "sc_set"})
       => blob.data = DataOf(recordedChunks)

\* ------------------------------------------------ claims on one-shot flags
\* C34: a one-shot flag is true only while its episode is open:
\* noFaceViolationLogged implies noFaceStart is set, and
\* lookAwayViolationLogged implies lookAwayStart is set.
C34_FlagOnlyInOpenEpisode ==
    /\ gazeState.noFaceViolationLogged => Truthy(gazeState.noFaceStart)
    /\ gazeState.lookAwayViolationLogged => Truthy(gazeState.lookAwayStart)

\* A no-face violation has been logged and its episode is still open.
C34_Witness ==
    /\ gazeState.noFaceViolationLogged
    /\ Truthy(gazeState.noFaceStart)
    /\ now - gazeState.noFaceStart > NoFaceThreshold * 1000

\* A look-away violation has been logged and its episode is still open.
C34_WitnessLookAway ==
    /\ gazeState.lookAwayViolationLogged
    /\ Truthy(gazeState.lookAwayStart)
    /\ faceResult.kind = "face"
    /\ faceResult.faceCount > 0

\* ------------------------------------------------- claims on stop and start
\* C35: stopDetection and startDetection leave gazeState (both starts, the
\* window, both one-shot flags) and the object debounce map as they were, so
\* an episode open at the stop goes on after the restart from its own start.
C35_StopStartKeepTracker ==
    [][(detectionActive' # detectionActive)
          => /\ gazeState' = gazeState
             /\ detectedObjects' = detectedObjects]_vars

\* Detection has been stopped with a no-face episode open and a class in the
\* debounce map, and can be started again.
C35_Witness ==
    /\ ~detectionActive
    /\ Truthy(gazeState.noFaceStart)
    /\ \E c \in Classes : Truthy(detectedObjects[c])
    /\ ENABLED StartDetection

\* ---------------------------------------- claims on the window across gaps
\* A result with no face has just been processed.
C36_NoFaceProcessed ==
    /\ faceResult'.kind = "face"
    /\ faceResult'.faceCount = 0

\* The first result with a face after a run of no-face results.
C36_FaceReturns ==
    /\ faceResult'.kind = "face"
    /\ faceResult'.faceCount > 0
    /\ ~gazeState.hasFace

\* C36: a face result with faceCount = 0 leaves gazeHistory as it was, neither
\* cleared nor appended to, so the first result after the face returns is
\* judged on the window from before the gap plus its own sample.
C36_GapKeepsHistory ==
    [][/\ C36_NoFaceProcessed
          => gazeState'.gazeHistory = gazeState.gazeHistory
       /\ C36_FaceReturns
          => /\ \E cur \in BOOLEAN :
                   gazeState'.gazeHistory
                     = PushSample(gazeState.gazeHistory, cur)
             /\ faceResult'.lookingAway = Smoothed(gazeState'.gazeHistory)]_vars

\* A no-face result was processed with six away samples in the window: one
\* more away sample on the face's return makes seven.
C36_Witness ==
    /\ faceResult.kind = "face"
    /\ faceResult.faceCount = 0
    /\ ~gazeState.hasFace
    /\ CountTrue(gazeState.gazeHistory) = GazeMinAway - 1

\* ------------------------------------------- claims on events per callback
\* Two predictions of class c that pass both thresholds.
C37_TwoOf(c) == <<[class |-> c, score |-> 90], [class |-> c, score |-> 90]>>

\* C37: one onObjectDetection callback creates at most one object_detected
\* event per class, however many qualifying detections of the class its frame
\* holds.
C37_OneEventPerClass ==
    \A i, j \in 1..Len(emitted) :
        (/\ i # j
         /\ emitted[i].type = "object_detected"
         /\ emitted[j].type = "object_detected")
          => emitted[i].details # emitted[j].details

\* A frame holding two qualifying cell phones is about to be handed to the
\* callback, which will alert once for it.
C37_Witness ==
    /\ Len(objInflight) > 0
    /\ ENABLED (/\ ObjectResult(1, C37_TwoOf("cell phone"))
                /\ UNCHANGED lastSeen
                /\ Len(emitted') = 1
                /\ emitted'[1].details = "cell phone")

\* ------------------------------------------------ claims on polling timers
\* C38: detectionActive is true exactly when both polling timers exist;
\* startDetection called while detection is active does nothing, so it
\* creates no further timer; stopDetection leaves neither timer.
C38_ActiveIffTimers ==
    /\ detectionActive <=> (faceDetectionInterval /\ objectDetectionInterval)
    /\ faceDetectionInterval <=> objectDetectionInterval
    /\ detectionActive => ~ENABLED StartDetection

C38_TimersFollowStartStop ==
    [][/\ (faceDetectionInterval' /\ ~faceDetectionInterval)
          => ~detectionActive /\ ~objectDetectionInterval
       /\ (objectDetectionInterval' /\ ~objectDetectionInterval)
          => ~detectionActive /\ ~faceDetectionInterval
       /\ (detectionActive /\ ~detectionActive')
          => ~faceDetectionInterval' /\ ~objectDetectionInterval']_vars

C38_TimersMatchActive == []C38_ActiveIffTimers /\ C38_TimersFollowStartStop

\* Detection is active with both timers while inferences of both providers
\* are pending.
C38_Witness ==
    /\ detectionActive
    /\ faceDetectionInterval
    /\ objectDetectionInterval
    /\ Len(objInflight) = MaxObjInflight
    /\ faceInflight > 0

\* Detection has been stopped while inferences were pending: neither timer
\* is left.
C38_WitnessStopped ==
    /\ ~detectionActive
    /\ ~faceDetectionInterval
    /\ ~objectDetectionInterval
    /\ Len(objInflight) > 0

====
